---- MODULE Spec2Model ----
(***************************************************************************)
(* A model of the portfolio admin area:                                    *)
(*   - the Session Gate of AdminPage (src/app/admin/login/page.tsx),       *)
(*   - the two gallery viewers (ProjectPreview, ProjectPreviewModal),      *)
(*   - the media normalisation used wherever a project's media is drawn,   *)
(*   - the upload/edit form: its fields, handleSubmit and onSubmit        *)
(*     (src/app/admin/components/UploadForm.tsx),                          *)
(*   - the project list of the dashboard with preview and delete,          *)
(*   - LoginPage and the navigation between the login and admin screens,   *)
(*   - a gallery viewer inside its parent page and its keyboard effect.    *)
(* Each part has its own specification; the variables of the other parts   *)
(* stay unchanged in it.                                                   *)
(***************************************************************************)
EXTENDS Integers, Sequences, FiniteSets, TLC

VARIABLES
    \* ---- Session Gate (AdminPage) ----
    authUser,         \* the identity provider's current user (auth.currentUser)
    user,             \* useState user: Undefined | None | identity
    isAdmin,          \* useState isAdmin
    checkingAuth,     \* useState checkingAuth
    hasShownWelcome,  \* useState hasShownWelcome
    mounted,          \* AdminPage is mounted (not torn down)
    closures,         \* one entry per run of the authentication effect
    handlers,         \* one entry per delivery of the identity stream
    now,              \* wall clock, in seconds
    toasts,           \* number of showToast calls of the gate, per message
    signOutCalls,     \* number of signOut(auth) calls of the gate
    navLog,           \* router.push('/admin/login') calls of the gate, in order
    afterTeardown,    \* what the gate did after AdminPage was torn down
    \* ---- media normalisation: one project and the place that drew it last ----
    medProject,       \* the project record being rendered
    rendered,         \* [place, shown, threw]: what that place put on screen
    \* ---- gallery viewer (ProjectPreview / ProjectPreviewModal) ----
    galViewer,        \* "none" (closed), "admin" or "public"
    galProject,       \* the project prop of the open viewer
    currentMediaIndex,\* useState currentMediaIndex, a JavaScript number
    galStreak,        \* the run of equal navigation requests made last
    galModByZero,     \* a modulo by a length of 0 has been evaluated
    \* ---- upload / edit form (UploadForm) ----
    formUser,         \* the user prop: an identity or None
    initialData,      \* the initialData prop: [present, project]
    cloudinaryEnv,        \* which of the two Cloudinary environment variables are set
    selectedFiles,    \* useState selectedFiles: the sizes of the chosen files
    selectedType,     \* watch('type')
    isLoading,        \* useState isLoading
    uploadProgress,   \* useState uploadProgress
    progressIntervals,\* setInterval timers of uploadToCloudinary still running
    progressTicks,    \* how often such a timer has fired
    subs,             \* one entry per call of onSubmit
    hostCalls,        \* per onSubmit call: the POSTs it sent to the media host
    storeCalls,       \* per onSubmit call: its addDoc / updateDoc calls on 'projects'
    \* ---- the fields of the upload / edit form (react-hook-form) ----
    formData,         \* the values of title, description and liveLink
    formErrors,       \* formState.errors, and whether handleSubmit has validated
    \* ---- the projects of the admin dashboard (AdminPage) ----
    storeDocs,        \* ids of the documents of 'projects' at the server
    cacheView,        \* the same as the client sees it, pending writes applied
    prjSubscription,  \* the onSnapshot listener: "open", "errored"
    snapshotDue,      \* the listener has a snapshot to deliver
    projects,         \* useState projects: the mirror, as document ids
    loadingProjects,  \* useState loadingProjects
    previewProject,   \* useState previewProject: a document id, 0 for null
    pendingDeletes,   \* ids with a deleteDoc call that has not settled
    prjToasts,        \* the last toast of the listener or of handleDeleteProject
    deletedInPreview, \* ids whose delete succeeded while they were previewed
    lastSnapshot,     \* the documents of the snapshot the listener delivered last
    \* ---- the login screen (LoginPage) and the route shown ----
    route,            \* the screen that is mounted: "admin" or "login"
    loginEmail,       \* useState email
    loginPassword,    \* useState password
    loginError,       \* useState error
    loginIsLoading,   \* useState isLoading of LoginPage
    loginCheckingAuth,\* useState checkingAuth of LoginPage
    loginPc,          \* handleLogin: "idle", or "signIn" while it awaits
    loginResult,      \* how signInWithEmailAndPassword settled last
    loginOrphans,     \* sign-in calls still pending whose LoginPage is gone
    loginNotified,    \* what LoginPage's identity listener was given last
    adminPushes,      \* number of router.push('/admin') calls
    adminPushesDone,  \* ... of which the router has carried out
    loginPushesDone,  \* entries of navLog the router has carried out
    sinceFailure,     \* what happened since a role-fetch failure sent the visitor to login
    reentered,        \* the admin screen was mounted again after that, without a sign-in
    \* ---- the gallery viewer inside its parent page ----
    keydownListeners, \* the viewer's handlers registered for 'keydown' on window
    registered,       \* the handler the viewer's keyboard effect added last
    lastEvent,        \* what happened to the viewer last
    \* ---- the public page's projects ----
    pubStore,         \* the projects collection as an unordered query returns it
    pubProjects,      \* PortfolioPage's projects state
    pubLoading,       \* PortfolioPage's loadingProjects state
    pubPc             \* where fetchProjectsFromFirebase stands

gateVars == <<authUser, user, isAdmin, checkingAuth, hasShownWelcome, mounted,
              closures, handlers, now, toasts, signOutCalls, navLog, afterTeardown>>

medVars == <<medProject, rendered>>

galVars == <<galViewer, galProject, currentMediaIndex, galStreak, galModByZero>>

subVars == <<formUser, initialData, cloudinaryEnv, selectedFiles, selectedType,
             isLoading, uploadProgress, progressIntervals, progressTicks, subs,
             hostCalls, storeCalls>>

fldVars == <<formData, formErrors>>

prjVars == <<storeDocs, cacheView, prjSubscription, snapshotDue, projects,
             loadingProjects, previewProject, pendingDeletes, prjToasts,
             deletedInPreview, lastSnapshot>>

lgnVars == <<route, loginEmail, loginPassword, loginError, loginIsLoading, loginCheckingAuth, loginPc,
             loginResult, loginOrphans, loginNotified, adminPushes, adminPushesDone,
             loginPushesDone,
             sinceFailure, reentered>>

vwrVars == <<keydownListeners, registered, lastEvent>>

pubVars == <<pubStore, pubProjects, pubLoading, pubPc>>

vars == <<gateVars, medVars, galVars, subVars, fldVars, prjVars, lgnVars, vwrVars, pubVars>>

\* What the actions of one part leave alone
notGate == <<medVars, galVars, subVars, fldVars, prjVars, lgnVars, vwrVars, pubVars>>
notMed == <<gateVars, galVars, subVars, fldVars, prjVars, lgnVars, vwrVars, pubVars>>
notGal == <<gateVars, medVars, subVars, fldVars, prjVars, lgnVars, vwrVars, pubVars>>
notSub == <<gateVars, medVars, galVars, fldVars, prjVars, lgnVars, vwrVars, pubVars>>
notForm == <<gateVars, medVars, galVars, prjVars, lgnVars, vwrVars, pubVars>>
notPrj == <<gateVars, medVars, galVars, subVars, fldVars, lgnVars, vwrVars, pubVars>>
notApp == <<medVars, galVars, subVars, fldVars, prjVars, vwrVars, pubVars>>
notViewer == <<gateVars, medVars, subVars, fldVars, prjVars, lgnVars, pubVars>>
notDash == <<medVars, galVars, subVars, fldVars, lgnVars, vwrVars, pubVars>>
notPub == <<gateVars, medVars, galVars, subVars, fldVars, prjVars, lgnVars, vwrVars>>

\* JavaScript's null / undefined
None == "null"
Undefined == "undefined"

\* -------------------------------------------------------------------------
\* Bounds of the model
\* -------------------------------------------------------------------------
MaxHandlers == 2    \* deliveries of the identity stream in one run
MaxTime == 2        \* the clock stops at this many seconds
MaxMedia == 3       \* longest media array of a project record
MaxSubs == 1        \* calls of onSubmit in one run
MaxFiles == 2       \* files chosen in the form
MaxTicks == 1       \* firings of the progress timers in one run
MaxProjects == 2    \* documents of the 'projects' collection
MaxRaceSubs == 2    \* calls of onSubmit when the button is pressed repeatedly

\* -------------------------------------------------------------------------
\* Program constants
\* -------------------------------------------------------------------------
\* setTimeout(() => router.push('/admin/login'), 2000): the delay in seconds
DeniedRedirectDelay == 2

Users == {"u1", "u2"}

\* What getDoc(users/uid) can produce: no record, a record with role 'admin',
\* a record with another role, or a rejected promise.
FetchResults == {"absent", "admin", "other", "error"}

\* =========================================================================
\* Session Gate
\* =========================================================================

NoToasts == [welcome |-> 0, notFound |-> 0, denied |-> 0, verifyFailed |-> 0]

GateInit ==
    /\ authUser \in Users \cup {None}
    /\ user = Undefined
    /\ isAdmin = FALSE
    /\ checkingAuth = TRUE
    /\ hasShownWelcome = FALSE
    /\ mounted = TRUE
    /\ closures = << [isMounted |-> TRUE, hasShownWelcome |-> FALSE, page |-> 1] >>
    /\ handlers = << >>
    /\ now = 0
    /\ toasts = NoToasts
    /\ signOutCalls = 0
    /\ navLog = << >>
    /\ afterTeardown = {}

\* router.push('/admin/login') issued by handler h
PushLogin(h) == Append(navLog, [t |-> now, h |-> h])

\* The AdminPage whose effect started handler h is still mounted: the page has
\* not been torn down, and it has not been mounted anew since.
PageMounted(h) ==
    mounted /\ closures[Len(closures)].page = closures[handlers[h].gen].page

\* What is recorded when handler h acts although its AdminPage is gone
Late(h, kinds) == IF PageMounted(h) THEN afterTeardown ELSE afterTeardown \cup kinds

NewHandler(cu, pc, outcome) ==
    [cu |-> cu, gen |-> Len(closures), pc |-> pc, res |-> "pending",
     outcome |-> outcome, at |-> -1, navsBefore |-> -1, due |-> -1]

\* The callback of onAuthStateChanged up to its first await (lines 667-680).
\* The stream hands the provider's current user to the subscribed listener: on
\* subscription, after a change of the user, or again.  Whether the provider
\* holds back a repeated notification is decided outside this repository.
GateDeliver(v) ==
    /\ mounted
    /\ closures[Len(closures)].isMounted
    /\ Len(handlers) < MaxHandlers
    /\ v = authUser
    /\ IF v = None
       THEN /\ user' = None
            /\ isAdmin' = FALSE
            /\ checkingAuth' = FALSE
            /\ navLog' = PushLogin(Len(handlers) + 1)
            /\ handlers' = Append(handlers, NewHandler(v, "done", "unauthenticated"))
       ELSE /\ handlers' = Append(handlers, NewHandler(v, "fetch", "none"))
            /\ UNCHANGED <<user, isAdmin, checkingAuth, navLog>>
    /\ UNCHANGED <<authUser, hasShownWelcome, mounted, closures, now, toasts,
                   signOutCalls, afterTeardown>>

\* GateCatch without its router.push and without clearing the user.
GateCatchNoRedirect(h) ==
    IF closures[handlers[h].gen].isMounted
    THEN /\ toasts' = [toasts EXCEPT !.verifyFailed = @ + 1]
         /\ isAdmin' = FALSE
         /\ checkingAuth' = FALSE
         /\ handlers' = [handlers EXCEPT ![h].pc = "done", ![h].outcome = "failed"]
         /\ UNCHANGED <<user, navLog>>
    ELSE /\ handlers' = [handlers EXCEPT ![h].pc = "done", ![h].outcome = "dropped"]
         /\ UNCHANGED <<toasts, isAdmin, user, checkingAuth, navLog>>

\* The catch block (lines 714-722), entered by handler h.
GateCatch(h) ==
    IF closures[handlers[h].gen].isMounted
    THEN /\ toasts' = [toasts EXCEPT !.verifyFailed = @ + 1]
         /\ isAdmin' = FALSE
         /\ user' = None
         /\ checkingAuth' = FALSE
         /\ navLog' = PushLogin(h)
         /\ handlers' = [handlers EXCEPT ![h].pc = "done", ![h].outcome = "failed"]
    ELSE /\ handlers' = [handlers EXCEPT ![h].pc = "done", ![h].outcome = "dropped"]
         /\ UNCHANGED <<toasts, isAdmin, user, checkingAuth, navLog>>

\* getDoc settles: lines 680-713 up to the next await, or the catch block.
GateFetchDone(h, r) ==
    /\ h \in 1..Len(handlers)
    /\ handlers[h].pc = "fetch"
    /\ LET me == handlers[h]
           live == closures[me.gen].isMounted
       IN  CASE r = "error" ->
                  /\ GateCatch(h)
                  /\ UNCHANGED <<hasShownWelcome, signOutCalls>>
             [] r # "error" /\ ~live ->
                  /\ handlers' = [handlers EXCEPT ![h].pc = "done", ![h].res = r,
                                                  ![h].outcome = "dropped"]
                  /\ UNCHANGED <<user, isAdmin, checkingAuth, hasShownWelcome, toasts,
                                 signOutCalls, navLog>>
             [] r = "absent" /\ live ->
                  /\ toasts' = [toasts EXCEPT !.notFound = @ + 1]
                  /\ isAdmin' = FALSE
                  /\ user' = None
                  /\ checkingAuth' = FALSE
                  /\ signOutCalls' = signOutCalls + 1
                  /\ handlers' = [handlers EXCEPT ![h].pc = "signOutAbsent",
                                                  ![h].res = r,
                                                  ![h].outcome = "notFound"]
                  /\ UNCHANGED <<hasShownWelcome, navLog>>
             [] r = "admin" /\ live ->
                  /\ isAdmin' = TRUE
                  /\ user' = me.cu
                  /\ IF ~closures[me.gen].hasShownWelcome
                     THEN /\ toasts' = [toasts EXCEPT !.welcome = @ + 1]
                          /\ hasShownWelcome' = TRUE
                     ELSE UNCHANGED <<toasts, hasShownWelcome>>
                  /\ checkingAuth' = FALSE
                  /\ handlers' = [handlers EXCEPT ![h].pc = "done",
                                                  ![h].res = r,
                                                  ![h].outcome = "granted"]
                  /\ UNCHANGED <<signOutCalls, navLog>>
             [] r = "other" /\ live ->
                  /\ toasts' = [toasts EXCEPT !.denied = @ + 1]
                  /\ isAdmin' = FALSE
                  /\ user' = None
                  /\ signOutCalls' = signOutCalls + 1
                  /\ handlers' = [handlers EXCEPT ![h].pc = "signOutDenied",
                                                  ![h].res = r,
                                                  ![h].outcome = "denied",
                                                  ![h].at = now,
                                                  ![h].navsBefore = Len(navLog)]
                  /\ UNCHANGED <<checkingAuth, hasShownWelcome, navLog>>
    /\ UNCHANGED <<authUser, mounted, closures, now, afterTeardown>>

\* signOut(auth) settles: lines 690-692 (record absent) and 709-713 (not admin),
\* or the catch block when it rejects.  None of the lines after the await
\* looks at isMounted.
GateSignOutDone(h, ok) ==
    /\ h \in 1..Len(handlers)
    /\ handlers[h].pc \in {"signOutAbsent", "signOutDenied"}
    /\ IF ~ok
       THEN /\ GateCatch(h)
            /\ UNCHANGED <<authUser, afterTeardown>>
       ELSE /\ authUser' = None
            /\ IF handlers[h].pc = "signOutAbsent"
               THEN /\ navLog' = PushLogin(h)
                    /\ afterTeardown' = Late(h, {"navigate"})
                    /\ handlers' = [handlers EXCEPT ![h].pc = "done"]
                    /\ UNCHANGED checkingAuth
               ELSE /\ handlers' = [handlers EXCEPT ![h].pc = "timer",
                                                    ![h].due = now + DeniedRedirectDelay]
                    /\ checkingAuth' = IF PageMounted(h) THEN FALSE ELSE checkingAuth
                    /\ afterTeardown' = Late(h, {"setState"})
                    /\ UNCHANGED navLog
            /\ UNCHANGED <<user, isAdmin, toasts>>
    /\ UNCHANGED <<hasShownWelcome, mounted, closures, now, signOutCalls>>

\* The timer of line 710 fires, not before its delay has elapsed.
GateTimerFire(h) ==
    /\ h \in 1..Len(handlers)
    /\ handlers[h].pc = "timer"
    /\ now >= handlers[h].due
    /\ navLog' = PushLogin(h)
    /\ afterTeardown' = Late(h, {"navigate"})
    /\ handlers' = [handlers EXCEPT ![h].pc = "done"]
    /\ UNCHANGED <<authUser, user, isAdmin, checkingAuth, hasShownWelcome, mounted,
                   closures, now, toasts, signOutCalls>>

\* hasShownWelcome is a dependency of the effect (line 729): after it changed,
\* React runs the cleanup of the old effect (lines 725-728) and the effect again.
GateEffectRerun ==
    /\ mounted
    /\ closures[Len(closures)].hasShownWelcome # hasShownWelcome
    /\ closures' = Append([closures EXCEPT ![Len(closures)].isMounted = FALSE],
                          [isMounted |-> TRUE, hasShownWelcome |-> hasShownWelcome,
                           page |-> closures[Len(closures)].page])
    /\ UNCHANGED <<authUser, user, isAdmin, checkingAuth, hasShownWelcome, mounted,
                   handlers, now, toasts, signOutCalls, navLog, afterTeardown>>

\* AdminPage is torn down: the cleanup of lines 725-728.
GateTeardown ==
    /\ mounted
    /\ mounted' = FALSE
    /\ closures' = [closures EXCEPT ![Len(closures)].isMounted = FALSE]
    /\ UNCHANGED <<authUser, user, isAdmin, checkingAuth, hasShownWelcome,
                   handlers, now, toasts, signOutCalls, navLog, afterTeardown>>

\* One second passes.
Tick ==
    /\ now < MaxTime
    /\ now' = now + 1
    /\ UNCHANGED <<authUser, user, isAdmin, checkingAuth, hasShownWelcome, mounted,
                   closures, handlers, toasts, signOutCalls, navLog, afterTeardown>>

\* The provider's current user changes without this page taking part: a
\* sign-out or a sign-in in another tab of the same browser, or the end of the
\* session.  onAuthStateChanged (line 667) exists to report such changes.
AuthChangesElsewhere(v) ==
    /\ v # authUser
    /\ authUser' = v
    /\ UNCHANGED <<user, isAdmin, checkingAuth, hasShownWelcome, mounted, closures,
                   handlers, now, toasts, signOutCalls, navLog, afterTeardown>>

\* -------------------------------------------------------------------------
\* Session Gate: claims
\* -------------------------------------------------------------------------
HandlerIds == 1..Len(handlers)

\* Handler h is the only delivery of an identity; every other delivery is the
\* stream's emission of "no user", which the stream makes only after a sign-out.
OnlyIdentityDelivery(h) ==
    /\ handlers[h].cu \in Users
    /\ \A k \in HandlerIds : k # h => handlers[k].cu = None

AllHandled == \A k \in HandlerIds : handlers[k].pc = "done"

\* C2: a present identity whose role record is absent costs, once the gate has
\* also handled the "no user" emission that follows the sign-out, exactly one
\* signOut call, exactly one router.push('/admin/login') and no 'access
\* granted' toast.
C2_AbsentRecordOneSignOutOneRedirect ==
    \A h \in HandlerIds :
        ( /\ OnlyIdentityDelivery(h)
          /\ handlers[h].outcome = "notFound"
          /\ \E k \in HandlerIds : k > h /\ handlers[k].cu = None
          /\ AllHandled )
        => ( /\ signOutCalls = 1
             /\ Len(navLog) = 1
             /\ toasts.welcome = 0 )

\* C3: while AdminPage stays mounted, two deliveries of the same identity whose
\* role record says 'admin' produce exactly one 'access granted' toast, in
\* every interleaving of the deliveries, the fetches and the effect's re-run.
C3_OneWelcomeForTwoDeliveries ==
    \A i, j \in HandlerIds :
        ( /\ i < j
          /\ mounted
          /\ handlers[i].cu \in Users
          /\ handlers[i].cu = handlers[j].cu
          /\ handlers[i].res = "admin" /\ handlers[j].res = "admin"
          /\ handlers[i].pc = "done" /\ handlers[j].pc = "done" )
        => toasts.welcome = 1

\* C4: a present identity whose record has a role other than 'admin' gets the
\* 'access denied' toast and a sign-out, and no router.push('/admin/login')
\* is made before 2 seconds have passed since the denial.
C4_DeniedRedirectWaitsTwoSeconds ==
    \A h \in HandlerIds :
        ( /\ OnlyIdentityDelivery(h)
          /\ handlers[h].outcome = "denied"
          /\ handlers[h].pc \in {"timer", "done"} )
        => ( /\ toasts.denied >= 1
             /\ signOutCalls >= 1
             /\ \A n \in (handlers[h].navsBefore + 1)..Len(navLog) :
                    navLog[n].t >= handlers[h].at + DeniedRedirectDelay )

\* C5: the step in which a handler of a live effect handles a failure (of getDoc
\* or of signOut) shows the verification-failure toast once, leaves user none,
\* isAdmin false and checkingAuth false, pushes the login route, and emits no
\* 'access granted' toast; that handler had not granted access before.
C5_FailureEndsUnauthenticated ==
    [][ \A h \in HandlerIds :
            (handlers[h].outcome # "failed" /\ handlers'[h].outcome = "failed")
            => ( /\ toasts'.verifyFailed = toasts.verifyFailed + 1
                 /\ toasts'.welcome = toasts.welcome
                 /\ user' = None
                 /\ isAdmin' = FALSE
                 /\ checkingAuth' = FALSE
                 /\ Len(navLog') = Len(navLog) + 1
                 /\ navLog'[Len(navLog')].h = h
                 /\ handlers[h].outcome # "granted" ) ]_vars

\* A getDoc failure for a present identity has been handled.
C5_Witness ==
    \E h \in HandlerIds :
        /\ handlers[h].cu \in Users
        /\ handlers[h].outcome = "failed"
        /\ handlers[h].res = "pending"
        /\ toasts.verifyFailed = 1
        /\ Len(navLog) = 1

\* C6: after AdminPage is torn down the gate does nothing more: no toast, no
\* signOut, no router.push and no state update, whatever was pending.
C6_NothingAfterTeardown == afterTeardown = {}

\* C17: whenever isAdmin is true and the stream's last emission has been
\* handled, the identity of that emission is present, is the one held in user,
\* and is one whose role record was fetched as 'admin': a fetch started for an
\* earlier emission grants nothing once a later emission of no user or of
\* another identity has been handled.
C17_GrantedIdentityIsLatestEmission ==
    (isAdmin /\ handlers # << >> /\ handlers[Len(handlers)].pc = "done") =>
        /\ LET last == handlers[Len(handlers)]
           IN  /\ last.cu \in Users
               /\ user = last.cu
               /\ \E h \in HandlerIds :
                      handlers[h].cu = last.cu /\ handlers[h].res = "admin"

GateNext ==
    \/ \E v \in Users \cup {None} : GateDeliver(v) /\ UNCHANGED notGate
    \/ \E h \in 1..MaxHandlers, r \in FetchResults : GateFetchDone(h, r) /\ UNCHANGED notGate
    \/ \E h \in 1..MaxHandlers, ok \in BOOLEAN : GateSignOutDone(h, ok) /\ UNCHANGED notGate
    \/ \E h \in 1..MaxHandlers : GateTimerFire(h) /\ UNCHANGED notGate
    \/ GateEffectRerun /\ UNCHANGED notGate
    \/ GateTeardown /\ UNCHANGED notGate
    \/ Tick /\ UNCHANGED notGate

\* =========================================================================
\* Project records and the media drawn from them
\* =========================================================================

ProjectTypes == {"graphics", "motion", "frontend"}

MediaItems == [type : {"image", "video"}, url : {"a", "b"}]

\* project.media as stored: missing, something that is no array, or an array
MediaValues ==
    {[kind |-> "undefined", items |-> << >>], [kind |-> "notArray", items |-> << >>]}
    \cup {[kind |-> "array", items |-> m] :
             m \in UNION {[1..n -> MediaItems] : n \in 0..MaxMedia}}

\* project.mediaUrl as stored: missing, the empty string, or a URL
MediaUrlValues == {Undefined, "", "legacy"}

Projects == [type : ProjectTypes, media : MediaValues, mediaUrl : MediaUrlValues]

\* JavaScript truthiness of an optional string
Truthy(str) == str # Undefined /\ str # ""

\* project.media && Array.isArray(project.media) && project.media.length > 0
HasMediaArray(p) == p.media.kind = "array" /\ Len(p.media.items) > 0

LegacyItem(p) == [type |-> IF p.type = "motion" THEN "video" ELSE "image", url |-> p.mediaUrl]

\* ProjectPreview.mediaItems with the legacy type taken from 'graphics' instead
\* of 'motion'
AdminPreviewMediaItemsWrongType(p) ==
    IF HasMediaArray(p) THEN p.media.items
    ELSE IF Truthy(p.mediaUrl)
         THEN << [type |-> IF p.type = "graphics" THEN "image" ELSE "video",
                  url |-> p.mediaUrl] >>
         ELSE << >>

\* ProjectPreview.mediaItems (admin preview)
AdminPreviewMediaItems(p) ==
    IF HasMediaArray(p) THEN p.media.items
    ELSE IF Truthy(p.mediaUrl) THEN << LegacyItem(p) >>
         ELSE << >>

\* ProjectPreviewModal.mediaItems (public preview modal)
PublicModalMediaItems(p) ==
    IF HasMediaArray(p) THEN p.media.items
    ELSE IF Truthy(p.mediaUrl) THEN << LegacyItem(p) >>
         ELSE << >>

\* ProjectCard.firstMedia (admin card); << >> stands for null
AdminCardFirstMedia(p) ==
    IF HasMediaArray(p) THEN << p.media.items[1] >>
    ELSE IF Truthy(p.mediaUrl) THEN << LegacyItem(p) >>
         ELSE << >>

\* AllProjectsModal.getFirstMedia (public all-projects card)
AllProjectsFirstMedia(p) ==
    IF HasMediaArray(p) THEN << p.media.items[1] >>
    ELSE IF Truthy(p.mediaUrl) THEN << LegacyItem(p) >>
         ELSE << >>

\* firstMedia of the recent-work list (public recent-work card)
RecentWorkFirstMedia(p) ==
    IF HasMediaArray(p) THEN << p.media.items[1] >>
    ELSE IF Truthy(p.mediaUrl) THEN << LegacyItem(p) >>
         ELSE << >>

\* The edit form's "Current Media" block: initialData.media?.map(...).  It
\* reads media only; .map of a value that is no array is a TypeError.
EditFormCurrentMedia(p) ==
    IF p.media.kind = "array" THEN p.media.items ELSE << >>

EditFormThrows(p) == p.media.kind = "notArray"

Places == {"adminPreview", "publicModal", "adminCard", "allProjectsCard",
           "recentWorkCard", "editForm"}

NothingRendered == [place |-> "none", shown |-> << >>, threw |-> FALSE]

MedInit ==
    /\ medProject \in Projects
    /\ rendered = NothingRendered

MedIdle ==
    /\ medProject = [type |-> "graphics", media |-> [kind |-> "undefined", items |-> << >>],
                     mediaUrl |-> Undefined]
    /\ rendered = NothingRendered

\* One place renders medProject.
MedRender(place) ==
    /\ rendered' =
         [place |-> place,
          shown |-> CASE place = "adminPreview" -> AdminPreviewMediaItems(medProject)
                      [] place = "publicModal" -> PublicModalMediaItems(medProject)
                      [] place = "adminCard" -> AdminCardFirstMedia(medProject)
                      [] place = "allProjectsCard" -> AllProjectsFirstMedia(medProject)
                      [] place = "recentWorkCard" -> RecentWorkFirstMedia(medProject)
                      [] place = "editForm" -> EditFormCurrentMedia(medProject),
          threw |-> place = "editForm" /\ EditFormThrows(medProject)]
    /\ UNCHANGED medProject

MedNext == \E place \in Places : MedRender(place) /\ UNCHANGED notMed

\* -------------------------------------------------------------------------
\* Media normalisation: claims
\* -------------------------------------------------------------------------

\* The normalized media sequence as the data model states it.
NormalizedMedia(p) ==
    IF p.media.kind = "array" /\ p.media.items # << >>
    THEN p.media.items
    ELSE IF p.mediaUrl \notin {Undefined, ""}
         THEN << [type |-> IF p.type = "motion" THEN "video" ELSE "image",
                  url |-> p.mediaUrl] >>
         ELSE << >>

FirstOrNothing(items) == IF items = << >> THEN << >> ELSE << items[1] >>

\* C9: what the admin preview computes as mediaItems is the normalized media
\* sequence: media itself when it is a non-empty array, else the one legacy item
\* {video iff type = motion, mediaUrl} when mediaUrl is set, else nothing.
C9_MediaItemsIsNormalized ==
    rendered.place = "adminPreview" => rendered.shown = NormalizedMedia(medProject)

\* The admin preview has drawn a legacy motion record: one video item.
C9_Witness ==
    /\ rendered.place = "adminPreview"
    /\ medProject.media.kind = "array" /\ medProject.media.items = << >>
    /\ medProject.mediaUrl = "legacy"
    /\ medProject.type = "motion"
    /\ rendered.shown = << [type |-> "video", url |-> "legacy"] >>

\* C10: every place that draws a project's media shows the normalized media
\* sequence (previews, edit form) or its first element (cards).
C10_EveryPlaceShowsNormalized ==
    rendered.place # "none" =>
        rendered.shown =
             IF rendered.place \in {"adminCard", "allProjectsCard", "recentWorkCard"}
             THEN FirstOrNothing(NormalizedMedia(medProject))
             ELSE NormalizedMedia(medProject)

\* =========================================================================
\* Gallery viewers
\* =========================================================================

\* JavaScript numbers: an integer or NaN
Num(n) == [nan |-> FALSE, n |-> n]
NaN == [nan |-> TRUE, n |-> 0]

\* a + k for an integer k
JsAdd(a, k) == IF a.nan THEN NaN ELSE Num(a.n + k)

\* a % m: NaN for m = 0, else the remainder with the sign of a
JsMod(a, m) ==
    IF a.nan \/ m = 0 THEN NaN
    ELSE IF a.n >= 0 THEN Num(a.n % m) ELSE Num(0 - ((0 - a.n) % m))

\* goToNext without the wrap-around
AdminGoToNextNoWrap(prev, len) == JsAdd(prev, 1)

\* ProjectPreview.goToNext: (prev + 1) % mediaItems.length
AdminGoToNext(prev, len) == JsMod(JsAdd(prev, 1), len)

\* ProjectPreview.goToPrevious: (prev - 1 + mediaItems.length) % mediaItems.length
AdminGoToPrevious(prev, len) == JsMod(JsAdd(JsAdd(prev, -1), len), len)

\* ProjectPreviewModal.goToNext
PublicGoToNext(prev, len) == JsMod(JsAdd(prev, 1), len)

\* ProjectPreviewModal.goToPrevious
PublicGoToPrevious(prev, len) == JsMod(JsAdd(JsAdd(prev, -1), len), len)

\* hasMultipleMedia with the comparison dropped
HasMultipleMediaAlways(items) == Len(items) >= 0

\* hasMultipleMedia = mediaItems.length > 1 (both viewers)
HasMultipleMedia(items) == Len(items) > 1

\* mediaItems of the open viewer
GalItems ==
    IF galViewer = "admin" THEN AdminPreviewMediaItems(galProject)
    ELSE PublicModalMediaItems(galProject)

GoToNext(prev) ==
    IF galViewer = "admin" THEN AdminGoToNext(prev, Len(GalItems))
    ELSE PublicGoToNext(prev, Len(GalItems))

GoToPrevious(prev) ==
    IF galViewer = "admin" THEN AdminGoToPrevious(prev, Len(GalItems))
    ELSE PublicGoToPrevious(prev, Len(GalItems))

\* currentMedia = mediaItems[currentMediaIndex] is defined
HasCurrentMedia ==
    /\ ~currentMediaIndex.nan
    /\ currentMediaIndex.n >= 0
    /\ currentMediaIndex.n < Len(GalItems)

\* {currentMedia && (...)}: the full-size media element
RendersMediaElement == galViewer # "none" /\ HasCurrentMedia

\* the previous / next buttons, inside the currentMedia block
RendersArrows == RendersMediaElement /\ HasMultipleMedia(GalItems)

\* the thumbnail strip
RendersThumbnails == galViewer # "none" /\ HasMultipleMedia(GalItems)

\* Projects shown in the viewers: every length of the normalized sequence,
\* reached through a media array and through the legacy mediaUrl.
GalleryProjects ==
    {p \in Projects :
        /\ p.type \in {"graphics", "motion"}
        /\ p.mediaUrl \in {Undefined, "legacy"}
        /\ p.media.kind \in {"undefined", "array"}
        /\ \A i \in 1..Len(p.media.items) : p.media.items[i] = [type |-> "image", url |-> "a"]}

NoProject == [type |-> "graphics", media |-> [kind |-> "undefined", items |-> << >>],
              mediaUrl |-> Undefined]

NoStreak == [op |-> "none", n |-> 0, from |-> Num(0)]

GalInit ==
    /\ galViewer = "none"
    /\ galProject = NoProject
    /\ currentMediaIndex = Num(0)
    /\ galStreak = NoStreak
    /\ galModByZero = FALSE

\* The run of equal requests after one more request op made at index idx; a run
\* that has reached the length of the sequence starts again.
StreakAfter(op, idx) ==
    IF galStreak.op = op /\ galStreak.n < Len(GalItems)
    THEN [galStreak EXCEPT !.n = @ + 1]
    ELSE [op |-> op, n |-> 1, from |-> idx]

\* A viewer is mounted with a project: useState(0).
GalOpen(v, p) ==
    /\ galViewer = "none"
    /\ galViewer' = v
    /\ galProject' = p
    /\ currentMediaIndex' = Num(0)
    /\ galStreak' = NoStreak
    /\ UNCHANGED galModByZero

\* onClose (close button, backdrop): the viewer is unmounted.
GalClose ==
    /\ galViewer # "none"
    /\ galViewer' = "none"
    /\ galProject' = NoProject
    /\ currentMediaIndex' = Num(0)
    /\ galStreak' = NoStreak
    /\ UNCHANGED galModByZero

\* handleKeyPress
GalKey(key) ==
    /\ galViewer # "none"
    /\ CASE key = "ArrowRight" /\ HasMultipleMedia(GalItems) ->
              /\ currentMediaIndex' = GoToNext(currentMediaIndex)
              /\ galModByZero' = (galModByZero \/ Len(GalItems) = 0)
              /\ galStreak' = StreakAfter("next", currentMediaIndex)
              /\ UNCHANGED <<galViewer, galProject>>
         [] key = "ArrowRight" /\ ~HasMultipleMedia(GalItems) ->
              /\ galStreak' = StreakAfter("next", currentMediaIndex)
              /\ UNCHANGED <<galViewer, galProject, currentMediaIndex, galModByZero>>
         [] key = "ArrowLeft" /\ HasMultipleMedia(GalItems) ->
              /\ currentMediaIndex' = GoToPrevious(currentMediaIndex)
              /\ galModByZero' = (galModByZero \/ Len(GalItems) = 0)
              /\ galStreak' = StreakAfter("previous", currentMediaIndex)
              /\ UNCHANGED <<galViewer, galProject>>
         [] key = "ArrowLeft" /\ ~HasMultipleMedia(GalItems) ->
              /\ galStreak' = StreakAfter("previous", currentMediaIndex)
              /\ UNCHANGED <<galViewer, galProject, currentMediaIndex, galModByZero>>
         [] key = "Escape" ->
              /\ galViewer' = "none"
              /\ galProject' = NoProject
              /\ currentMediaIndex' = Num(0)
              /\ galStreak' = NoStreak
              /\ UNCHANGED galModByZero
         [] OTHER ->
              UNCHANGED galVars

\* onClick of the next button
GalClickNext ==
    /\ RendersArrows
    /\ currentMediaIndex' = GoToNext(currentMediaIndex)
    /\ galModByZero' = (galModByZero \/ Len(GalItems) = 0)
    /\ galStreak' = StreakAfter("next", currentMediaIndex)
    /\ UNCHANGED <<galViewer, galProject>>

\* onClick of the previous button
GalClickPrevious ==
    /\ RendersArrows
    /\ currentMediaIndex' = GoToPrevious(currentMediaIndex)
    /\ galModByZero' = (galModByZero \/ Len(GalItems) = 0)
    /\ galStreak' = StreakAfter("previous", currentMediaIndex)
    /\ UNCHANGED <<galViewer, galProject>>

\* onClick of thumbnail idx: setCurrentMediaIndex(idx)
GalSelect(idx) ==
    /\ RendersThumbnails
    /\ idx \in 0..(Len(GalItems) - 1)
    /\ currentMediaIndex' = Num(idx)
    /\ galStreak' = NoStreak
    /\ UNCHANGED <<galViewer, galProject, galModByZero>>

GalNext ==
    \/ \E v \in {"admin", "public"}, p \in GalleryProjects : GalOpen(v, p) /\ UNCHANGED notGal
    \/ GalClose /\ UNCHANGED notGal
    \/ \E key \in {"ArrowRight", "ArrowLeft", "Escape", "Enter"} : GalKey(key) /\ UNCHANGED notGal
    \/ GalClickNext /\ UNCHANGED notGal
    \/ GalClickPrevious /\ UNCHANGED notGal
    \/ \E idx \in 0..MaxMedia : GalSelect(idx) /\ UNCHANGED notGal

\* -------------------------------------------------------------------------
\* Gallery viewers: claims
\* -------------------------------------------------------------------------

\* C7: in either viewer, after as many consecutive next() requests as the media
\* sequence is long, currentMediaIndex is back at the index the run started
\* from; the same for previous().
C7_CycleClosure ==
    ( /\ galViewer # "none"
      /\ galStreak.op \in {"next", "previous"}
      /\ galStreak.n = Len(GalItems) )
    => currentMediaIndex = galStreak.from

\* Three next() requests on a sequence of three, started at index 1.
C7_Witness ==
    /\ galViewer = "public"
    /\ Len(GalItems) = MaxMedia
    /\ galStreak = [op |-> "next", n |-> MaxMedia, from |-> Num(1)]
    /\ currentMediaIndex = Num(1)

ImageCapBytes == 5 * 1024 * 1024
VideoCapBytes == 50 * 1024 * 1024

\* maxSize without the larger cap for motion projects
MaxFileSizeOneCap(type) == ImageCapBytes

\* maxSize of the upload loop
MaxFileSize(type) == IF type = "motion" THEN VideoCapBytes ELSE ImageCapBytes

\* resourceType of the upload loop
ResourceType(type) == IF type = "motion" THEN "video" ELSE "image"

FileSizes == {ImageCapBytes, ImageCapBytes + 1, VideoCapBytes, VideoCapBytes + 1}

FileLists == UNION {[1..n -> FileSizes] : n \in 0..MaxFiles}

NoInitialData == [present |-> FALSE, id |-> "", project |-> NoProject]

\* The records the form can be opened on for an edit: one in the multi-file
\* format, one legacy record.
InitialDataValues ==
    { NoInitialData,
      [present |-> TRUE, id |-> "p1",
       project |-> [type |-> "graphics",
                    media |-> [kind |-> "array",
                               items |-> << [type |-> "image", url |-> "a"] >>],
                    mediaUrl |-> Undefined]],
      [present |-> TRUE, id |-> "p2",
       project |-> [type |-> "motion",
                    media |-> [kind |-> "undefined", items |-> << >>],
                    mediaUrl |-> "legacy"]] }

SubInit ==
    /\ formUser \in {"u1", None}
    /\ initialData \in InitialDataValues
    /\ cloudinaryEnv \in [cloudName : BOOLEAN, preset : BOOLEAN]
    /\ selectedFiles \in FileLists
    /\ selectedType \in ProjectTypes
    /\ isLoading = FALSE
    /\ uploadProgress = 0
    /\ progressIntervals = 0
    /\ progressTicks = 0
    /\ subs = << >>
    /\ hostCalls = << >>
    /\ storeCalls = << >>

SubIdle ==
    /\ formUser = None
    /\ initialData = NoInitialData
    /\ cloudinaryEnv = [cloudName |-> TRUE, preset |-> TRUE]
    /\ selectedFiles = << >>
    /\ selectedType = "graphics"
    /\ isLoading = FALSE
    /\ uploadProgress = 0
    /\ progressIntervals = 0
    /\ progressTicks = 0
    /\ subs = << >>
    /\ hostCalls = << >>
    /\ storeCalls = << >>

Toast(type, msg) == [type |-> type, msg |-> msg]

\* ---- the form's fields ----

\* minLength, maxLength of title; maxLength of description
TitleMinLength == 3
TitleMaxLength == 100
DescriptionMaxLength == 500

\* A text value: its length, and how many of its characters are white space
\* at its two ends.
Text(length, pad) == [length |-> length, pad |-> pad]

\* String.prototype.trim
Trim(t) == Text(t.length - t.pad, 0)

\* A liveLink value: scheme "://" rest, followed by pad blanks; without a
\* scheme it is rest alone.  rest counts the characters after "://".
Link(scheme, rest, pad) == [scheme |-> scheme, rest |-> rest, pad |-> pad]

EmptyLink == Link("", 0, 0)

TrimLink(l) == [l EXCEPT !.pad = 0]

\* /^https?:\/\/.+/
MatchesUrlPattern(l) == l.scheme \in {"http", "https"} /\ l.rest + l.pad >= 1

TitleValues ==
    {t \in {Text(n, p) : n \in {0, TitleMinLength - 1, TitleMinLength, TitleMaxLength,
                                TitleMaxLength + 1},
                        p \in {0, 1, TitleMinLength}} : t.pad <= t.length}

DescriptionValues ==
    {Text(0, 0), Text(DescriptionMaxLength, 1), Text(DescriptionMaxLength + 1, 0)}

LinkValues ==
    {EmptyLink, Link("", 1, 0), Link("ftp", 1, 0), Link("http", 1, 0),
     Link("https", 1, 0), Link("https", 0, 0), Link("https", 1, 1)}

NoErrors == [validated |-> TRUE, title |-> "", description |-> "", liveLink |-> ""]

NotValidated == [validated |-> FALSE, title |-> "", description |-> "", liveLink |-> ""]

\* register('title', {required, minLength, maxLength}) without the minLength rule
TitleErrorNoMinLength(t) ==
    IF t.length = 0 THEN "Title is required"
    ELSE IF t.length > TitleMaxLength THEN "Title must be less than 100 characters"
    ELSE ""

\* register('title', {required, minLength, maxLength})
TitleError(t) ==
    IF t.length = 0 THEN "Title is required"
    ELSE IF t.length > TitleMaxLength THEN "Title must be less than 100 characters"
    ELSE IF t.length < TitleMinLength THEN "Title must be at least 3 characters"
    ELSE ""

\* register('description', {maxLength})
DescriptionError(d) ==
    IF d.length > DescriptionMaxLength THEN "Description must be less than 500 characters"
    ELSE ""

\* register('liveLink', {required, pattern}); the input is rendered, and so
\* validated, only while the selected type is frontend.
LiveLinkError(type, l) ==
    IF type # "frontend" THEN ""
    ELSE IF l = EmptyLink THEN "Live link is required for frontend projects"
    ELSE IF ~MatchesUrlPattern(l)
         THEN "Please enter a valid URL starting with http:// or https://"
    ELSE ""

\* formState.errors after handleSubmit has validated
ValidateFields(data, type) ==
    [validated |-> TRUE,
     title |-> TitleError(data.title),
     description |-> DescriptionError(data.description),
     liveLink |-> LiveLinkError(type, data.liveLink)]

HasErrors(e) == e.title # "" \/ e.description # "" \/ e.liveLink # ""

ValidFormData == [title |-> Text(TitleMinLength, 0), description |-> Text(0, 0),
                  liveLink |-> Link("https", 1, 0)]

FldInit ==
    /\ formData \in [title : TitleValues, description : DescriptionValues,
                      liveLink : LinkValues]
    /\ formErrors = NotValidated

FldIdle ==
    /\ formData = ValidFormData
    /\ formErrors = NotValidated

\* The role check of onSubmit that lets a failed fetch through
RoleVerdictFailOpen(r) ==
    CASE r = "absent" -> "User record not found. Please contact support."
      [] r = "other" -> "Admin privileges required for upload."
      [] r = "error" -> "proceed"
      [] r = "admin" -> "proceed"

\* The role check of onSubmit: "proceed", or the error toast it returns with
RoleVerdict(r) ==
    CASE r = "absent" -> "User record not found. Please contact support."
      [] r = "other" -> "Admin privileges required for upload."
      [] r = "error" -> "Failed to verify admin status."
      [] r = "admin" -> "proceed"

\* `File "${file.name}" exceeds the size limit`, the file named by its position
SizeMessage(i) == "File " \o ToString(i) \o " exceeds the size limit"

ConfigurationMessage ==
    "Cloudinary configuration missing. Please check your environment variables."

\* validateCloudinaryConfig that accepts any environment
ValidateCloudinaryConfigPasses(env) == ""

\* validateCloudinaryConfig: the message of the error it throws, "" when it
\* returns the configuration
ValidateCloudinaryConfig(env) ==
    IF ~env.cloudName \/ ~env.preset THEN ConfigurationMessage ELSE ""

\* The notification of the catch block with the two fallbacks exchanged
ErrorTextSwapped(sub, message) ==
    IF message # "" THEN message
    ELSE IF sub.initial.present THEN "Upload failed" ELSE "Update failed"

\* error.message || (initialData ? 'Update failed' : 'Upload failed')
ErrorText(sub, message) ==
    IF message # "" THEN message
    ELSE IF sub.initial.present THEN "Update failed" ELSE "Upload failed"

\* let media = initialData?.media || []
KeptMedia(sub) ==
    IF sub.initial.present /\ sub.initial.project.media.kind = "array"
    THEN sub.initial.project.media.items
    ELSE << >>

\* The fields a create adds, with a new record left unpublished
CreateFieldsUnpublished(uid) ==
    [written |-> TRUE, createdAt |-> "serverTimestamp", userId |-> uid,
     status |-> "draft", featured |-> FALSE, views |-> 0, likes |-> 0]

\* The fields projectData spreads in for a create only: createdAt, userId,
\* status, featured, views, likes (and userEmail, which is not followed here)
CreateFields(uid) ==
    [written |-> TRUE, createdAt |-> "serverTimestamp", userId |-> uid,
     status |-> "published", featured |-> FALSE, views |-> 0, likes |-> 0]

\* ...(initialData ? {} : ...): none of those fields is in projectData
NotCreated ==
    [written |-> FALSE, createdAt |-> "", userId |-> "",
     status |-> "", featured |-> FALSE, views |-> 0, likes |-> 0]

\* The stored record p after updateDoc has merged the write w into it: type
\* and media are replaced, mediaUrl is not among the written fields.
StoredAfterUpdate(p, w) ==
    [type |-> w.type, media |-> [kind |-> "array", items |-> w.media],
     mediaUrl |-> p.mediaUrl]

\* The media of the record when the uploads are added to the kept media
WrittenMediaAppends(sub) == KeptMedia(sub) \o sub.uploaded

\* media of projectData: media = uploadedMedia when files were selected, the
\* kept media otherwise
WrittenMedia(sub) == IF Len(sub.files) > 0 THEN sub.uploaded ELSE KeptMedia(sub)

\* secure_url of the i-th upload of submission s
UploadedUrl(s, i) == "upload-" \o ToString(s) \o "-" \o ToString(i)

\* The catch block of onSubmit without the finally block after it
SubFailNoFinally(s, sub, message, ivs) ==
    /\ subs' = [subs EXCEPT ![s] =
                  [sub EXCEPT !.pc = "done", !.outcome = "failed", !.thrown = message,
                              !.toasts = Append(@, Toast("error", ErrorText(sub, message)))]]
    /\ uploadProgress' = 0
    /\ isLoading' = isLoading
    /\ progressIntervals' = ivs
    /\ UNCHANGED <<hostCalls, storeCalls, selectedFiles>>

\* The catch and finally blocks of onSubmit, entered by submission s whose
\* record is sub, with ivs progress timers running.
SubFail(s, sub, message, ivs) ==
    /\ subs' = [subs EXCEPT ![s] =
                  [sub EXCEPT !.pc = "done", !.outcome = "failed", !.thrown = message,
                              !.toasts = Append(@, Toast("error", ErrorText(sub, message)))]]
    /\ uploadProgress' = 0
    /\ isLoading' = FALSE
    /\ progressIntervals' = ivs
    /\ UNCHANGED <<hostCalls, storeCalls, selectedFiles>>

\* The body of the second try block of onSubmit from the i-th file on, up to
\* its next await: the size check and uploadToCloudinary up to its fetch, or,
\* past the last file, the write.
SubContinue(s, sub, i, progress, loading, ivs) ==
    IF i <= Len(sub.files)
    THEN IF sub.files[i] > MaxFileSize(sub.type)
         THEN SubFail(s, sub, SizeMessage(i), ivs)
         ELSE IF ValidateCloudinaryConfig(cloudinaryEnv) # ""
         THEN SubFail(s, sub, ValidateCloudinaryConfig(cloudinaryEnv), ivs)
         ELSE /\ subs' = [subs EXCEPT ![s] = [sub EXCEPT !.pc = "upload", !.i = i]]
              /\ hostCalls' = [hostCalls EXCEPT ![s] =
                                  Append(@, [file |-> i,
                                             resourceType |-> ResourceType(sub.type)])]
              /\ progressIntervals' = ivs + 1
              /\ uploadProgress' = progress
              /\ isLoading' = loading
              /\ UNCHANGED <<storeCalls, selectedFiles>>
    ELSE /\ subs' = [subs EXCEPT ![s] =
                       [sub EXCEPT !.pc = "write",
                                   !.toasts = Append(@, Toast("warning",
                                       IF sub.initial.present THEN "Updating project..."
                                       ELSE "Saving to database..."))]]
         /\ storeCalls' = [storeCalls EXCEPT ![s] = Append(@,
                [op |-> IF sub.initial.present THEN "updateDoc" ELSE "addDoc",
                 id |-> sub.initial.id,
                 title |-> Trim(sub.data.title),
                 description |-> Trim(sub.data.description),
                 liveLink |-> IF sub.type = "frontend"
                              THEN [defined |-> TRUE, value |-> TrimLink(sub.data.liveLink)]
                              ELSE [defined |-> FALSE, value |-> EmptyLink],
                 type |-> sub.type,
                 media |-> WrittenMedia(sub),
                 updatedAt |-> "serverTimestamp",
                 created |-> IF sub.initial.present THEN NotCreated
                             ELSE CreateFields(formUser)])]
         /\ progressIntervals' = ivs
         /\ uploadProgress' = progress
         /\ isLoading' = loading
         /\ UNCHANGED <<hostCalls, selectedFiles>>

\* onSubmit(data) is called and runs up to its first await.
OnSubmitStart ==
    /\ LET sub == [pc |-> "verify", role |-> "pending", outcome |-> "none",
                   files |-> selectedFiles, type |-> selectedType,
                   data |-> formData,
                   initial |-> initialData, i |-> 0, uploaded |-> << >>,
                   toasts |-> << >>, completion |-> "none", thrown |-> ""]
       IN  IF formUser = None
           THEN subs' = Append(subs,
                    [sub EXCEPT !.pc = "done", !.role = "skipped", !.outcome = "rejected",
                                !.toasts = << Toast("error",
                                    "Authentication required. Please sign in again.") >>])
           ELSE subs' = Append(subs, sub)
    /\ UNCHANGED <<formUser, initialData, cloudinaryEnv, selectedFiles,
                   selectedType, isLoading, uploadProgress, progressIntervals,
                   progressTicks>>
    /\ hostCalls' = Append(hostCalls, << >>)
    /\ storeCalls' = Append(storeCalls, << >>)

\* The submit button is pressed: onClick={handleSubmit(onSubmit)}.  The button
\* is disabled while isLoading.  handleSubmit validates the registered fields
\* and calls onSubmit only when none of them has an error; limit bounds the
\* number of onSubmit calls of a run.
HandleSubmit(limit) ==
    /\ ~isLoading
    /\ Len(subs) < limit
    /\ formErrors' = ValidateFields(formData, selectedType)
    /\ IF HasErrors(ValidateFields(formData, selectedType))
       THEN UNCHANGED subVars
       ELSE OnSubmitStart
    /\ UNCHANGED formData

SubClick == HandleSubmit(MaxSubs)

\* The same button, pressed again while earlier calls of onSubmit are running
SubClickAgain == HandleSubmit(MaxRaceSubs)

\* getDoc(users/uid) of submission s settles with r.
SubVerifyDone(s, r) ==
    /\ s \in 1..Len(subs)
    /\ subs[s].pc = "verify"
    /\ LET sub == [subs[s] EXCEPT !.role = r]
       IN  IF RoleVerdict(r) # "proceed"
           THEN /\ subs' = [subs EXCEPT ![s] =
                              [sub EXCEPT !.pc = "done", !.outcome = "rejected",
                                          !.toasts = Append(@, Toast("error", RoleVerdict(r)))]]
                /\ UNCHANGED <<isLoading, uploadProgress, progressIntervals, hostCalls,
                               storeCalls, selectedFiles>>
           ELSE IF Len(sub.files) > 0
           THEN SubContinue(s, [sub EXCEPT !.toasts = Append(@, Toast("warning", "Uploading media..."))],
                            1, 0, TRUE, progressIntervals)
           ELSE IF ~sub.initial.present
           THEN SubFail(s, sub, "Please select at least one file", progressIntervals)
           ELSE SubContinue(s, sub, 1, 0, TRUE, progressIntervals)
    /\ UNCHANGED <<formUser, initialData, cloudinaryEnv, selectedType, progressTicks>>

\* The fetch of uploadToCloudinary and the response.json() after it settle:
\* "ok", a response that is not ok (with or without an error message in its
\* body), or a rejected promise whose error has no message.
SubUploadDone(s, r) ==
    /\ s \in 1..Len(subs)
    /\ subs[s].pc = "upload"
    /\ LET sub == subs[s]
       IN  CASE r = "ok" ->
                  SubContinue(s,
                      [sub EXCEPT !.uploaded = Append(@, [type |-> ResourceType(sub.type),
                                                          url |-> UploadedUrl(s, sub.i)])],
                      sub.i + 1, 100, isLoading, progressIntervals - 1)
             [] r = "notOkWithMessage" ->
                  SubFail(s, sub, "Cloudinary error message", progressIntervals - 1)
             [] r = "notOk" ->
                  SubFail(s, sub, "Upload to Cloudinary failed", progressIntervals - 1)
             [] r = "rejected" ->
                  SubFail(s, sub, "", progressIntervals - 1)
    /\ UNCHANGED <<formUser, initialData, cloudinaryEnv, selectedType, progressTicks>>

\* updateDoc / addDoc of submission s settles.
SubWriteDone(s, r) ==
    /\ s \in 1..Len(subs)
    /\ subs[s].pc = "write"
    /\ LET sub == subs[s]
       IN  CASE r = "ok" ->
                  /\ subs' = [subs EXCEPT ![s] =
                       [sub EXCEPT !.pc = "done", !.outcome = "written",
                                   \* the toast texts start with a check mark
                                   !.toasts = Append(@, Toast("success",
                                       IF sub.initial.present
                                       THEN "Project updated successfully!"
                                       ELSE "Project uploaded successfully!")),
                                   !.completion = IF sub.initial.present THEN "onFinish"
                                                  ELSE "reset"]]
                  /\ selectedFiles' = IF sub.initial.present THEN selectedFiles ELSE << >>
                  /\ uploadProgress' = 0
                  /\ isLoading' = FALSE
                  /\ UNCHANGED <<hostCalls, storeCalls, progressIntervals>>
             [] r = "rejectedWithMessage" ->
                  SubFail(s, sub, "Firestore error message", progressIntervals)
             [] r = "rejected" ->
                  SubFail(s, sub, "", progressIntervals)
    /\ UNCHANGED <<formUser, initialData, cloudinaryEnv, selectedType, progressTicks>>

\* A progress timer of uploadToCloudinary fires:
\* setUploadProgress(prev => Math.min(prev + 10, 90)).
SubProgressTick ==
    /\ progressIntervals > 0
    /\ progressTicks < MaxTicks
    /\ progressTicks' = progressTicks + 1
    /\ uploadProgress' = IF uploadProgress + 10 < 90 THEN uploadProgress + 10 ELSE 90
    /\ UNCHANGED <<formUser, initialData, cloudinaryEnv, selectedFiles, selectedType,
                   isLoading, progressIntervals, subs, hostCalls, storeCalls>>

SubNext ==
    \/ SubClick /\ UNCHANGED notForm
    \/ \E s \in 1..Len(subs), r \in FetchResults : SubVerifyDone(s, r) /\ UNCHANGED notSub
    \/ \E s \in 1..Len(subs), r \in {"ok", "notOkWithMessage", "notOk", "rejected"} : SubUploadDone(s, r) /\ UNCHANGED notSub
    \/ \E s \in 1..Len(subs), r \in {"ok", "rejectedWithMessage", "rejected"} : SubWriteDone(s, r) /\ UNCHANGED notSub
    \/ SubProgressTick /\ UNCHANGED notSub

\* -------------------------------------------------------------------------
\* Upload / edit form: claims
\* -------------------------------------------------------------------------
SubIds == 1..Len(subs)

UploadsOf(s) == hostCalls[s]

WritesOf(s) == storeCalls[s]

LastToast(s) == subs[s].toasts[Len(subs[s].toasts)]

\* C1: a submission sends a file to the media host or writes a record only after
\* its own role fetch has returned role 'admin'; when that fetch finds no
\* record, another role, or fails, the submission is over with an error toast,
\* no upload and no write.
C1_MutationsOnlyAfterAdminCheck ==
    \A s \in SubIds :
        /\ (UploadsOf(s) # << >> \/ WritesOf(s) # << >>) => subs[s].role = "admin"
        /\ subs[s].role \in {"absent", "other", "error"} =>
              /\ subs[s].pc = "done"
              /\ LastToast(s).type = "error"
              /\ UploadsOf(s) = << >>
              /\ WritesOf(s) = << >>

\* A submission was verified as admin, has uploaded its files and written the
\* record.
C1_Witness ==
    \E t \in SubIds :
        /\ subs[t].role = "admin" /\ subs[t].outcome = "written"
        /\ Len(UploadsOf(t)) = MaxFiles
        /\ Len(WritesOf(t)) = 1

\* The cap the size policy states: 50 MiB for motion, 5 MiB otherwise.
SizeCap(type) == IF type = "motion" THEN 50 * 1024 * 1024 ELSE 5 * 1024 * 1024

\* C11: a file larger than the cap of the submission's type is never posted to
\* the media host; the submission that reaches it ends there with the error
\* naming it, with the files before it posted and none after it, and writes no
\* record; the size error is raised only for a file above the cap.
C11_OversizedFileStopsSubmission ==
    \A s \in SubIds :
        LET sub == subs[s]
            cap == SizeCap(sub.type)
        IN  /\ \A k \in 1..Len(hostCalls[s]) : sub.files[hostCalls[s][k].file] <= cap
            /\ \A j \in 1..Len(sub.files) :
                  /\ sub.files[j] > cap =>
                        /\ \A k \in 1..Len(hostCalls[s]) : hostCalls[s][k].file < j
                        /\ storeCalls[s] = << >>
                        /\ ( /\ sub.role = "admin"
                             /\ Len(sub.uploaded) = j - 1
                             /\ \A i \in 1..(j - 1) : sub.files[i] <= cap )
                           => ( /\ sub.pc = "done"
                                /\ LastToast(s) = Toast("error", SizeMessage(j))
                                /\ Len(hostCalls[s]) = j - 1 )
                  /\ (sub.pc = "done" /\ LastToast(s) = Toast("error", SizeMessage(j)))
                        => sub.files[j] > cap

\* A motion submission has posted a first file of exactly 50 MiB and stopped
\* at a second file of one byte more.
C11_Witness ==
    \E s \in SubIds :
        /\ subs[s].type = "motion"
        /\ subs[s].files = << VideoCapBytes, VideoCapBytes + 1 >>
        /\ subs[s].pc = "done"
        /\ LastToast(s) = Toast("error", SizeMessage(2))
        /\ Len(hostCalls[s]) = 1
        /\ Len(subs[s].uploaded) = 1

\* The fields break a constraint of the form: title shorter than 3 or longer
\* than 100, description longer than 500, or for a frontend project a liveLink
\* that is empty or does not start with http:// or https://.
FieldsViolate ==
    \/ formData.title.length < 3
    \/ formData.title.length > 100
    \/ formData.description.length > 500
    \/ /\ selectedType = "frontend"
       /\ \/ formData.liveLink = EmptyLink
          \/ formData.liveLink.scheme \notin {"http", "https"}

\* C12: with fields that break a constraint onSubmit is never called, so there
\* is no role fetch, no upload and no write, and once the button has been
\* pressed the broken field carries its message; for a type other than
\* frontend the liveLink is not looked at.
C12_InvalidFieldsRejectedLocally ==
    /\ FieldsViolate => (subs = << >> /\ hostCalls = << >> /\ storeCalls = << >>)
    /\ formErrors.validated =>
          /\ formData.title.length = 0 => formErrors.title = "Title is required"
          /\ formData.title.length \in 1..2 =>
                formErrors.title = "Title must be at least 3 characters"
          /\ formData.title.length > 100 =>
                formErrors.title = "Title must be less than 100 characters"
          /\ formData.description.length > 500 =>
                formErrors.description = "Description must be less than 500 characters"
          /\ (selectedType = "frontend" /\ formData.liveLink = EmptyLink) =>
                formErrors.liveLink = "Live link is required for frontend projects"
          /\ ( /\ selectedType = "frontend"
               /\ formData.liveLink # EmptyLink
               /\ formData.liveLink.scheme \notin {"http", "https"} ) =>
                formErrors.liveLink =
                    "Please enter a valid URL starting with http:// or https://"
          /\ ( /\ selectedType # "frontend"
               /\ formData.title.length \in 3..100
               /\ formData.description.length <= 500 ) =>
                (~HasErrors(formErrors) /\ Len(subs) >= 1)

\* The button was pressed on a frontend project with a title of 2 characters
\* and the liveLink ftp://x: both messages are shown, nothing was started.
C12_Witness ==
    /\ formErrors.validated
    /\ selectedType = "frontend"
    /\ formData.title = Text(2, 0)
    /\ formData.liveLink = Link("ftp", 1, 0)
    /\ formErrors.title = "Title must be at least 3 characters"
    /\ formErrors.liveLink = "Please enter a valid URL starting with http:// or https://"
    /\ subs = << >>

\* C15: every record the form writes has a title of 3 to 100 characters.
C15_StoredTitleWithinLimits ==
    \A s \in SubIds : \A k \in 1..Len(storeCalls[s]) :
        /\ storeCalls[s][k].title.length >= 3
        /\ storeCalls[s][k].title.length <= 100

\* C16: at most one call of onSubmit is in progress at any time, its role
\* re-verification included: while one is running, pressing the submit button
\* starts no other.
C16_OneSubmissionInProgress ==
    Cardinality({s \in SubIds : subs[s].pc # "done"}) <= 1

\* C23: within one submission the files are posted one after another in the
\* order of their selection: the k-th request carries the k-th file, a request
\* is posted only in a step in which none of the submission is pending or the
\* pending one returns; the record of a successful submission with files has
\* as media one item per file, in that order, and nothing else.
C23_UploadsSequentialInOrder ==
    /\ [](\A s \in SubIds :
            /\ \A k \in 1..Len(hostCalls[s]) : hostCalls[s][k].file = k
            /\ Len(subs[s].uploaded) <= Len(hostCalls[s])
            /\ Len(hostCalls[s]) <= Len(subs[s].uploaded) + 1
            /\ subs[s].pc = "upload" => Len(hostCalls[s]) = Len(subs[s].uploaded) + 1
            /\ (subs[s].outcome = "written" /\ Len(subs[s].files) > 0) =>
                  /\ Len(hostCalls[s]) = Len(subs[s].files)
                  /\ storeCalls[s][1].media =
                        [k \in 1..Len(subs[s].files) |->
                            [type |-> ResourceType(subs[s].type), url |-> UploadedUrl(s, k)]])
    /\ [][ \A s \in SubIds :
              Len(hostCalls'[s]) > Len(hostCalls[s]) =>
                 /\ Len(hostCalls'[s]) = Len(hostCalls[s]) + 1
                 /\ subs[s].pc = "upload" =>
                       Len(subs'[s].uploaded) = Len(subs[s].uploaded) + 1 ]_vars

\* An edit of a record with media has posted two files, one after the other,
\* and written a record whose media are the two uploads.
C23_Witness ==
    \E s \in SubIds :
        /\ subs[s].initial.present
        /\ KeptMedia(subs[s]) # << >>
        /\ Len(subs[s].files) = 2
        /\ subs[s].outcome = "written"
        /\ Len(storeCalls[s][1].media) = 2
        /\ storeCalls[s][1].media[1].url = UploadedUrl(s, 1)
        /\ storeCalls[s][1].media[2].url = UploadedUrl(s, 2)

\* C24: after a successful edit without newly selected files the normalized
\* media of the stored record is what it was before the edit, for a multi-file
\* record and for a legacy record, whatever else the edit changes.
C24_EditWithoutFilesKeepsMedia ==
    \A s \in SubIds :
        ( /\ subs[s].outcome = "written"
          /\ subs[s].initial.present
          /\ subs[s].files = << >> ) =>
            NormalizedMedia(StoredAfterUpdate(subs[s].initial.project, storeCalls[s][1]))
                = NormalizedMedia(subs[s].initial.project)

\* C27: a create writes createdAt and updatedAt as server timestamps, the
\* owner's id, status published, featured false, views 0 and likes 0; an
\* update writes updatedAt and none of createdAt, owner id, status, featured,
\* views, likes.
C27_CreateDefaultsUpdateFrame ==
    \A s \in SubIds : \A k \in 1..Len(storeCalls[s]) :
        LET w == storeCalls[s][k]
        IN  /\ w.updatedAt = "serverTimestamp"
            /\ w.op = (IF subs[s].initial.present THEN "updateDoc" ELSE "addDoc")
            /\ w.op = "addDoc" =>
                  /\ w.created.written
                  /\ w.created.createdAt = "serverTimestamp"
                  /\ w.created.userId = formUser
                  /\ w.created.status = "published"
                  /\ w.created.featured = FALSE
                  /\ w.created.views = 0
                  /\ w.created.likes = 0
            /\ w.op = "updateDoc" => ~w.created.written

\* A create has been written with its defaults.
C27_Witness ==
    \E s \in SubIds :
        /\ subs[s].outcome = "written"
        /\ ~subs[s].initial.present
        /\ storeCalls[s][1].op = "addDoc"
        /\ storeCalls[s][1].created.status = "published"
        /\ storeCalls[s][1].created.userId = "u1"

\* C28: every written type is graphics, motion or frontend, and an edit
\* writes the type the record already has.
C28_TypeNeverChangedByEdit ==
    \A s \in SubIds : \A k \in 1..Len(storeCalls[s]) :
        /\ storeCalls[s][k].type \in ProjectTypes
        /\ storeCalls[s][k].op = "updateDoc" =>
              storeCalls[s][k].type = subs[s].initial.project.type

ConfigMissing == ~cloudinaryEnv.cloudName \/ ~cloudinaryEnv.preset

\* C26 as amended: with the cloud name or the preset missing no request is
\* ever posted to the media host and a submission with files writes nothing;
\* once its role fetch has returned admin and its first file is within the
\* cap, it is over with the configuration message, which is shown in no other
\* case.
C26_MissingConfigFailsBeforeUpload ==
    \A s \in SubIds :
        /\ ConfigMissing =>
              /\ hostCalls[s] = << >>
              /\ Len(subs[s].files) > 0 => storeCalls[s] = << >>
              /\ ( /\ subs[s].role = "admin"
                   /\ Len(subs[s].files) > 0
                   /\ subs[s].files[1] <= SizeCap(subs[s].type) )
                 => ( /\ subs[s].pc = "done"
                      /\ subs[s].outcome = "failed"
                      /\ LastToast(s) = Toast("error", ConfigurationMessage) )
        /\ (subs[s].toasts # << >> /\ LastToast(s).msg = ConfigurationMessage) => ConfigMissing

\* With the preset missing, a verified submission of two files has failed
\* with the configuration message, nothing posted.
C26_Witness ==
    \E s \in SubIds :
        /\ cloudinaryEnv = [cloudName |-> TRUE, preset |-> FALSE]
        /\ subs[s].role = "admin"
        /\ Len(subs[s].files) = 2
        /\ subs[s].outcome = "failed"
        /\ LastToast(s) = Toast("error", ConfigurationMessage)
        /\ hostCalls[s] = << >>

\* C26 as stated: with the configuration missing, a submission with files
\* makes no remote call at all: no role fetch, no request to the media host,
\* no write.
C26_FailsBeforeAnyNetworkCall ==
    \A s \in SubIds :
        (ConfigMissing /\ Len(subs[s].files) > 0) =>
            /\ subs[s].pc # "verify"
            /\ subs[s].role \notin FetchResults
            /\ hostCalls[s] = << >>
            /\ storeCalls[s] = << >>

\* The form is idle
FormIdle == ~isLoading /\ uploadProgress = 0 /\ progressIntervals = 0

\* C30: when every role fetch, upload and write settles, every call of
\* onSubmit comes to its end with the form idle: isLoading false,
\* uploadProgress 0 and no progress timer running.
C30_SubmissionReturnsToIdle ==
    \A s \in 1..MaxSubs :
        (s \in SubIds /\ subs[s].pc # "done")
            ~> (s \in SubIds /\ subs[s].pc = "done" /\ FormIdle)

\* A submission has ended in the catch block after its second upload failed,
\* and the form is idle.
C30_Witness ==
    \E s \in SubIds :
        /\ subs[s].outcome = "failed"
        /\ Len(hostCalls[s]) = 2
        /\ Len(subs[s].uploaded) = 1
        /\ subs[s].thrown = "Upload to Cloudinary failed"
        /\ FormIdle

\* =========================================================================
\* The projects of the admin dashboard: mirror, preview, delete
\* =========================================================================

\* Document ids; a larger id was created later.
ProjectIds == 1..MaxProjects

NoPreview == 0

\* query(collection(db, 'projects'), orderBy('createdAt', 'desc')) over docs
RECURSIVE SnapshotOf(_)
SnapshotOf(docs) ==
    IF docs = {} THEN << >>
    ELSE LET newest == CHOOSE d \in docs : \A e \in docs : e <= d
         IN  << newest >> \o SnapshotOf(docs \ {newest})

\* The ids the project cards are drawn for
Cards == {projects[k] : k \in 1..Len(projects)}

NoPrjToasts == "none"

\* The dashboard is shown to a verified admin: the effect of lines 731-758 has
\* subscribed and the first snapshot is on its way.
PrjInit ==
    /\ storeDocs \in SUBSET ProjectIds
    /\ cacheView = storeDocs
    /\ prjSubscription = "open"
    /\ snapshotDue = TRUE
    /\ projects = << >>
    /\ loadingProjects = TRUE
    /\ previewProject = NoPreview
    /\ pendingDeletes = {}
    /\ prjToasts = NoPrjToasts
    /\ deletedInPreview = {}
    /\ lastSnapshot = << >>

PrjIdle ==
    /\ storeDocs = {}
    /\ cacheView = {}
    /\ prjSubscription = "open"
    /\ snapshotDue = FALSE
    /\ projects = << >>
    /\ loadingProjects = TRUE
    /\ previewProject = NoPreview
    /\ pendingDeletes = {}
    /\ prjToasts = NoPrjToasts
    /\ deletedInPreview = {}
    /\ lastSnapshot = << >>

\* snapshot.docs.map(doc => ({ id: doc.id, ...doc.data() })): one entry per
\* document of the snapshot, in the snapshot's order.
MirrorOf(docs) == [k \in 1..Len(docs) |-> docs[k]]

\* The snapshot callback (lines 741-749).
PrjSnapshot ==
    /\ prjSubscription = "open"
    /\ snapshotDue
    /\ lastSnapshot' = SnapshotOf(cacheView)
    /\ projects' = MirrorOf(SnapshotOf(cacheView))
    /\ loadingProjects' = FALSE
    /\ snapshotDue' = FALSE
    /\ UNCHANGED <<storeDocs, cacheView, prjSubscription, previewProject,
                   pendingDeletes, prjToasts, deletedInPreview>>

\* The error callback with a setProjects([]) added
PrjSnapshotErrorClears ==
    /\ prjSubscription = "open"
    /\ prjSubscription' = "errored"
    /\ prjToasts' = "Failed to load projects"
    /\ loadingProjects' = FALSE
    /\ snapshotDue' = FALSE
    /\ projects' = << >>
    /\ UNCHANGED <<storeDocs, cacheView, previewProject, pendingDeletes,
                   deletedInPreview, lastSnapshot>>

\* The error callback (lines 750-754); the listener delivers nothing after it.
PrjSnapshotError ==
    /\ prjSubscription = "open"
    /\ prjSubscription' = "errored"
    /\ prjToasts' = "Failed to load projects"
    /\ loadingProjects' = FALSE
    /\ snapshotDue' = FALSE
    /\ UNCHANGED <<storeDocs, cacheView, projects, previewProject, pendingDeletes,
                   deletedInPreview, lastSnapshot>>

\* A card's preview button: onPreview={setPreviewProject}.
PrjPreview(id) ==
    /\ previewProject = NoPreview
    /\ ~loadingProjects
    /\ id \in Cards
    /\ previewProject' = id
    /\ UNCHANGED <<storeDocs, cacheView, prjSubscription, snapshotDue, projects,
                   loadingProjects, pendingDeletes, prjToasts, deletedInPreview,
                   lastSnapshot>>

\* onClose of the preview.
PrjClosePreview ==
    /\ previewProject # NoPreview
    /\ previewProject' = NoPreview
    /\ UNCHANGED <<storeDocs, cacheView, prjSubscription, snapshotDue, projects,
                   loadingProjects, pendingDeletes, prjToasts, deletedInPreview,
                   lastSnapshot>>

\* handleDeleteProject up to await deleteDoc, from the preview's delete button
\* or from a card's.  The client applies the delete to its cache at once and
\* an open listener gets a snapshot without the document.
PrjDelete(id, confirmed) ==
    /\ \/ previewProject = id
       \/ previewProject = NoPreview /\ ~loadingProjects /\ id \in Cards
    /\ id \notin pendingDeletes
    /\ IF confirmed
       THEN /\ pendingDeletes' = pendingDeletes \cup {id}
            /\ cacheView' = cacheView \ {id}
            /\ snapshotDue' = (snapshotDue \/ (prjSubscription = "open" /\ id \in cacheView))
       ELSE UNCHANGED <<pendingDeletes, cacheView, snapshotDue>>
    /\ UNCHANGED <<storeDocs, prjSubscription, projects, loadingProjects,
                   previewProject, prjToasts, deletedInPreview, lastSnapshot>>

\* deleteDoc settles (lines 777-783).  The server acknowledges a write after
\* the listener has been given the snapshot that the write caused locally.
PrjDeleteDone(id, ok) ==
    /\ id \in pendingDeletes
    /\ ~snapshotDue
    /\ pendingDeletes' = pendingDeletes \ {id}
    /\ IF ok
       THEN /\ storeDocs' = storeDocs \ {id}
            /\ prjToasts' = "Project deleted successfully"
            /\ previewProject' = NoPreview
            /\ deletedInPreview' = IF previewProject = id
                                   THEN deletedInPreview \cup {id}
                                   ELSE deletedInPreview
            /\ UNCHANGED <<cacheView, snapshotDue>>
       ELSE /\ prjToasts' = "Failed to delete project"
            /\ cacheView' = cacheView \cup ({id} \cap storeDocs)
            /\ snapshotDue' = (prjSubscription = "open" /\ id \in storeDocs)
            /\ UNCHANGED <<storeDocs, previewProject, deletedInPreview>>
    /\ UNCHANGED <<prjSubscription, projects, loadingProjects, lastSnapshot>>

PrjNext ==
    \/ PrjSnapshot /\ UNCHANGED notPrj
    \/ PrjSnapshotError /\ UNCHANGED notPrj
    \/ \E id \in ProjectIds : PrjPreview(id) /\ UNCHANGED notPrj
    \/ PrjClosePreview /\ UNCHANGED notPrj
    \/ \E id \in ProjectIds, confirmed \in BOOLEAN : PrjDelete(id, confirmed) /\ UNCHANGED notPrj
    \/ \E id \in ProjectIds, ok \in BOOLEAN : PrjDeleteDone(id, ok) /\ UNCHANGED notPrj

\* -------------------------------------------------------------------------
\* The projects of the admin dashboard: claims
\* -------------------------------------------------------------------------

\* C21: the mirror always holds the documents of the snapshot delivered last,
\* in that snapshot's order; the step in which the listener reports an error
\* shows 'Failed to load projects', ends loadingProjects and leaves the mirror
\* as it was.
C21_MirrorIsLastSnapshot ==
    /\ [](projects = lastSnapshot)
    /\ [][ (prjSubscription = "open" /\ prjSubscription' = "errored")
           => ( /\ projects' = projects
                /\ prjToasts' = "Failed to load projects"
                /\ loadingProjects' = FALSE ) ]_vars

\* The listener failed after it had delivered a snapshot of two documents,
\* newest first.
C21_Witness ==
    /\ prjSubscription = "errored"
    /\ Len(projects) = 2
    /\ projects[1] > projects[2]
    /\ ~loadingProjects
    /\ prjToasts = "Failed to load projects"

\* C13: once the delete of the previewed project has succeeded, neither the
\* preview nor a project card refers to the deleted id.
C13_DeletedProjectNotRendered ==
    \A id \in deletedInPreview : previewProject # id /\ id \notin Cards

\* =========================================================================
\* The login screen and the navigation between the two screens
\* =========================================================================

\* What signInWithEmailAndPassword can produce: a signed-in user, or a
\* rejection with one of Firebase's error codes.
SignInResults ==
    {"ok", "auth/invalid-credential", "auth/user-not-found", "auth/wrong-password",
     "auth/too-many-requests", "auth/network-request-failed"}

InvalidCredentialMessage == "Invalid email or password."
TooManyRequestsMessage == "Too many failed attempts. Please try again later."
ConnectionMessage == "Failed to log in. Please check your connection."

\* The catch block of handleLogin with 'auth/wrong-password' left out of the
\* first test.
LoginErrorMessageNoWrongPassword(code) ==
    IF code \in {"auth/invalid-credential", "auth/user-not-found"}
    THEN InvalidCredentialMessage
    ELSE IF code = "auth/too-many-requests"
         THEN TooManyRequestsMessage
         ELSE ConnectionMessage

\* The message the catch block of handleLogin sets (lines 66-76)
LoginErrorMessage(code) ==
    IF code \in {"auth/invalid-credential", "auth/user-not-found", "auth/wrong-password"}
    THEN InvalidCredentialMessage
    ELSE IF code = "auth/too-many-requests"
         THEN TooManyRequestsMessage
         ELSE ConnectionMessage

\* What the visitor can type into the two inputs
EmailValues == {"", "admin@site", "guest@site"}
PasswordValues == {"", "secret", "guess"}

\* The state of LoginPage after it has been mounted (lines 35-39)
LoginMounted ==
    /\ loginEmail = ""
    /\ loginPassword = ""
    /\ loginError = ""
    /\ loginIsLoading = FALSE
    /\ loginCheckingAuth = TRUE
    /\ loginPc = "idle"
    /\ loginResult = "none"
    /\ loginNotified = "nothing"

\* The admin screen is shown first; LoginPage is not mounted yet.
LgnInit ==
    /\ route = "admin"
    /\ LoginMounted
    /\ loginOrphans = 0
    /\ adminPushes = 0
    /\ adminPushesDone = 0
    /\ loginPushesDone = 0
    /\ sinceFailure = "none"
    /\ reentered = FALSE

LgnIdle == LgnInit

\* The callback of LoginPage's onAuthStateChanged (lines 43-50): the stream
\* hands it the current user on subscription and after each change.
LoginDeliver(v) ==
    /\ route = "login"
    /\ v = authUser
    /\ loginNotified # v
    /\ loginNotified' = v
    /\ IF v # None
       THEN /\ adminPushes' = adminPushes + 1
            /\ UNCHANGED loginCheckingAuth
       ELSE /\ loginCheckingAuth' = FALSE
            /\ UNCHANGED adminPushes
    /\ UNCHANGED <<route, loginEmail, loginPassword, loginError, loginIsLoading,
                   loginPc, loginResult, loginOrphans, adminPushesDone, loginPushesDone, sinceFailure, reentered>>
    /\ UNCHANGED gateVars

\* handleEmailChange and handlePasswordChange (lines 82-88): the visitor edits
\* the inputs of the form, which is on screen once checkingAuth is false
\* (line 90).
LoginType(e, p) ==
    /\ route = "login"
    /\ ~loginCheckingAuth
    /\ <<e, p>> # <<loginEmail, loginPassword>>
    /\ loginEmail' = e
    /\ loginPassword' = p
    /\ UNCHANGED <<route, loginError, loginIsLoading, loginCheckingAuth, loginPc,
                   loginResult, loginOrphans, loginNotified, adminPushes,
                   adminPushesDone, loginPushesDone, sinceFailure, reentered>>
    /\ UNCHANGED gateVars

\* handleLogin up to its await (lines 54-60).  The browser submits the form
\* only when both required inputs are filled (lines 130, 146); the button is
\* disabled while isLoading (line 158).
LoginSubmit ==
    /\ route = "login"
    /\ ~loginCheckingAuth
    /\ ~loginIsLoading
    /\ loginPc = "idle"
    /\ loginEmail # ""
    /\ loginPassword # ""
    /\ loginIsLoading' = TRUE
    /\ loginError' = ""
    /\ loginPc' = "signIn"
    /\ UNCHANGED <<route, loginEmail, loginPassword, loginCheckingAuth, loginResult,
                   loginOrphans, loginNotified, adminPushes,
                   adminPushesDone, loginPushesDone, sinceFailure, reentered>>
    /\ UNCHANGED gateVars

\* signInWithEmailAndPassword settles (lines 60-78): with user u signed in, or
\* rejected with code r.
LoginSignInDone(r, u) ==
    /\ loginPc = "signIn"
    /\ loginPc' = "idle"
    /\ loginResult' = r
    /\ IF r = "ok"
       THEN /\ authUser' = u
            /\ adminPushes' = adminPushes + 1
            /\ sinceFailure' = IF sinceFailure = "rested" THEN "signedIn" ELSE sinceFailure
            /\ UNCHANGED <<loginError, loginIsLoading>>
       ELSE /\ loginError' = LoginErrorMessage(r)
            /\ loginIsLoading' = FALSE
            /\ UNCHANGED <<authUser, adminPushes, sinceFailure>>
    /\ UNCHANGED <<route, loginEmail, loginPassword, loginCheckingAuth, loginOrphans,
                   loginNotified, adminPushesDone, loginPushesDone, reentered>>
    /\ UNCHANGED <<user, isAdmin, checkingAuth, hasShownWelcome, mounted, closures,
                   handlers, now, toasts, signOutCalls, navLog, afterTeardown>>

\* A sign-in call settles after its LoginPage was unmounted: the state updates
\* of lines 66-77 reach no component; the sign-in and the router.push of line
\* 61 take place all the same.
LoginOrphanDone(r, u) ==
    /\ loginOrphans > 0
    /\ loginOrphans' = loginOrphans - 1
    /\ IF r = "ok"
       THEN /\ authUser' = u
            /\ adminPushes' = adminPushes + 1
            /\ sinceFailure' = IF sinceFailure = "rested" THEN "signedIn" ELSE sinceFailure
       ELSE UNCHANGED <<authUser, adminPushes, sinceFailure>>
    /\ UNCHANGED <<route, loginEmail, loginPassword, loginError, loginIsLoading,
                   loginCheckingAuth, loginPc, loginResult, loginNotified,
                   adminPushesDone, loginPushesDone, reentered>>
    /\ UNCHANGED <<user, isAdmin, checkingAuth, hasShownWelcome, mounted, closures,
                   handlers, now, toasts, signOutCalls, navLog, afterTeardown>>

\* A push of the gate that the router has not carried out yet was made by the
\* catch block after getDoc failed for a present identity.
PushedByFetchFailure ==
    \E n \in (loginPushesDone + 1)..Len(navLog) :
        LET h == handlers[navLog[n].h]
        IN  h.cu \in Users /\ h.outcome = "failed" /\ h.res = "pending"

\* The router carries out router.push('/admin/login'): AdminPage is unmounted
\* (the cleanup of lines 725-728 runs) and LoginPage is mounted.
AppToLogin ==
    /\ Len(navLog) > loginPushesDone
    /\ loginPushesDone' = Len(navLog)
    /\ IF route = "admin"
       THEN /\ route' = "login"
            /\ mounted' = FALSE
            /\ closures' = [closures EXCEPT ![Len(closures)].isMounted = FALSE]
            /\ loginEmail' = ""
            /\ loginPassword' = ""
            /\ loginError' = ""
            /\ loginIsLoading' = FALSE
            /\ loginCheckingAuth' = TRUE
            /\ loginPc' = "idle"
            /\ loginResult' = "none"
            /\ loginNotified' = "nothing"
            /\ sinceFailure' = IF PushedByFetchFailure THEN "rested" ELSE "none"
       ELSE UNCHANGED <<route, mounted, closures, loginEmail, loginPassword,
                        loginError, loginIsLoading,
                        loginCheckingAuth, loginPc, loginResult, loginNotified,
                        sinceFailure>>
    /\ UNCHANGED <<adminPushes, adminPushesDone, loginOrphans, reentered>>
    /\ UNCHANGED <<authUser, user, isAdmin, checkingAuth, hasShownWelcome, handlers,
                   now, toasts, signOutCalls, navLog, afterTeardown>>

\* The router carries out router.push('/admin'): LoginPage is unmounted and a
\* new AdminPage is mounted, with the initial state of lines 652-659.
AppToAdmin ==
    /\ adminPushes > adminPushesDone
    /\ adminPushesDone' = adminPushes
    /\ IF route = "login"
       THEN /\ route' = "admin"
            /\ user' = Undefined
            /\ isAdmin' = FALSE
            /\ checkingAuth' = TRUE
            /\ hasShownWelcome' = FALSE
            /\ mounted' = TRUE
            /\ closures' = Append(closures,
                                  [isMounted |-> TRUE, hasShownWelcome |-> FALSE,
                                   page |-> closures[Len(closures)].page + 1])
            /\ reentered' = (reentered \/ sinceFailure = "rested")
            /\ loginPc' = "idle"
            /\ loginOrphans' = IF loginPc = "signIn" THEN loginOrphans + 1
                                                     ELSE loginOrphans
       ELSE UNCHANGED <<route, user, isAdmin, checkingAuth, hasShownWelcome, mounted,
                        closures, reentered, loginPc, loginOrphans>>
    /\ UNCHANGED <<loginEmail, loginPassword, loginError, loginIsLoading,
                   loginCheckingAuth, loginResult, loginNotified, adminPushes,
                   loginPushesDone, sinceFailure>>
    /\ UNCHANGED <<authUser, handlers, now, toasts, signOutCalls, navLog, afterTeardown>>

\* The gate runs inside the mounted AdminPage; the router unmounts it.
AppNext ==
    \/ \E v \in Users \cup {None} : GateDeliver(v) /\ UNCHANGED notGate
    \/ \E h \in 1..MaxHandlers, r \in FetchResults : GateFetchDone(h, r) /\ UNCHANGED notGate
    \/ \E h \in 1..MaxHandlers, ok \in BOOLEAN : GateSignOutDone(h, ok) /\ UNCHANGED notGate
    \/ \E h \in 1..MaxHandlers : GateTimerFire(h) /\ UNCHANGED notGate
    \/ GateEffectRerun /\ UNCHANGED notGate
    \/ Tick /\ UNCHANGED notGate
    \/ \E v \in Users \cup {None} : LoginDeliver(v) /\ UNCHANGED notApp
    \/ LoginType("admin@site", "secret") /\ UNCHANGED notApp
    \/ LoginSubmit /\ UNCHANGED notApp
    \/ \E r \in SignInResults, u \in Users : LoginSignInDone(r, u) /\ UNCHANGED notApp
    \/ \E r \in SignInResults, u \in Users : LoginOrphanDone(r, u) /\ UNCHANGED notApp
    \/ AppToLogin /\ UNCHANGED notApp
    \/ AppToAdmin /\ UNCHANGED notApp

\* -------------------------------------------------------------------------
\* The login screen: claims
\* -------------------------------------------------------------------------

\* C14: the step in which a sign-in attempt fails sets the error message that
\* belongs to its code ('Invalid email or password.' for invalid-credential,
\* user-not-found and wrong-password, the rate-limit message for
\* too-many-requests, the connectivity message for any other code), sets
\* isLoading to false, and pushes no navigation to the admin screen.
C14_FailedSignInShowsMessage ==
    [][ (loginPc = "signIn" /\ loginPc' = "idle" /\ route' = route
         /\ loginResult' # "ok")
        => ( /\ loginError' =
                  ( CASE loginResult' \in {"auth/invalid-credential",
                                           "auth/user-not-found",
                                           "auth/wrong-password"} ->
                             "Invalid email or password."
                      [] loginResult' = "auth/too-many-requests" ->
                             TooManyRequestsMessage
                      [] OTHER -> ConnectionMessage )
             /\ loginIsLoading' = FALSE
             /\ adminPushes' = adminPushes ) ]_vars

\* A sign-in attempt was rejected for wrong credentials, and the next one
\* because of too many attempts.
C14_Witness ==
    /\ route = "login"
    /\ loginPc = "idle"
    /\ loginResult = "auth/wrong-password"
    /\ loginError = InvalidCredentialMessage
    /\ ~loginIsLoading
    /\ adminPushes = adminPushesDone

\* C18: after a role-fetch failure for a present identity has sent the visitor
\* to the login screen, the application rests there: the admin screen is not
\* mounted again unless a sign-in has taken place in between.
C18_RestsOnLoginAfterFetchFailure == ~reentered

\* =========================================================================
\* The gallery viewer inside its parent page: project switch, re-render and
\* the keyboard effect
\* =========================================================================

\* handleKeyPress as one render of viewer v created it for project p: the
\* function closes over that render's hasMultipleMedia and, through goToNext
\* and goToPrevious, over the length of its mediaItems.
ListenerOf(v, p) ==
    LET items == IF v = "admin" THEN AdminPreviewMediaItems(p)
                 ELSE PublicModalMediaItems(p)
    IN  [viewer |-> v, hasMultipleMedia |-> HasMultipleMedia(items), len |-> Len(items)]

NoListener == [viewer |-> "none", hasMultipleMedia |-> FALSE, len |-> 0]

\* window.addEventListener('keydown', l)
AddListener(ls, l) == Append(ls, l)

\* A cleanup that removes nothing
RemoveListenerNothing(ls, l) == ls

\* window.removeEventListener('keydown', l): the first registration of l goes
RemoveListener(ls, l) ==
    IF \E i \in 1..Len(ls) : ls[i] = l
    THEN LET i == CHOOSE k \in 1..Len(ls) :
                      ls[k] = l /\ \A j \in 1..(k - 1) : ls[j] # l
         IN  SubSeq(ls, 1, i - 1) \o SubSeq(ls, i + 1, Len(ls))
    ELSE ls

\* The keyboard effect runs again: its cleanup, then a new registration.
EffectRerun(ls, old, new) == AddListener(RemoveListener(ls, old), new)

\* What one registered handler does with a key: st is [idx, open].
KeyPress(l, key, st) ==
    IF key = "ArrowRight" /\ l.hasMultipleMedia
    THEN [st EXCEPT !.idx = IF l.viewer = "admin" THEN AdminGoToNext(@, l.len)
                                                  ELSE PublicGoToNext(@, l.len)]
    ELSE IF key = "ArrowLeft" /\ l.hasMultipleMedia
    THEN [st EXCEPT !.idx = IF l.viewer = "admin" THEN AdminGoToPrevious(@, l.len)
                                                  ELSE PublicGoToPrevious(@, l.len)]
    ELSE IF key = "Escape"
    THEN [st EXCEPT !.open = FALSE]
    ELSE st

\* A keydown event reaches every registered handler, in order of registration.
RECURSIVE Dispatch(_, _, _)
Dispatch(ls, key, st) ==
    IF ls = << >> THEN st
    ELSE Dispatch(Tail(ls), key, KeyPress(Head(ls), key, st))

Event(kind, key) ==
    [kind |-> kind, key |-> key, from |-> currentMediaIndex,
     len |-> IF galViewer = "none" THEN 0 ELSE Len(GalItems)]

VwrInit ==
    /\ keydownListeners = << >>
    /\ registered = NoListener
    /\ lastEvent = [kind |-> "none", key |-> "", from |-> Num(0), len |-> 0]

VwrIdle == VwrInit

\* A project is selected while no viewer is open: the viewer is mounted,
\* useState(0), and its keyboard effect runs.
VwrOpen(v, p) ==
    /\ GalOpen(v, p)
    /\ keydownListeners' = AddListener(keydownListeners, ListenerOf(v, p))
    /\ registered' = ListenerOf(v, p)
    /\ lastEvent' = Event("open", "")

\* The viewer is unmounted: the cleanup of the keyboard effect runs.
Unmounted ==
    /\ galViewer' = "none"
    /\ galProject' = NoProject
    /\ currentMediaIndex' = Num(0)
    /\ galStreak' = NoStreak
    /\ keydownListeners' = RemoveListener(keydownListeners, registered)
    /\ registered' = NoListener

\* onClose from the close button or the backdrop
VwrClose ==
    /\ galViewer # "none"
    /\ Unmounted
    /\ lastEvent' = Event("close", "")
    /\ UNCHANGED galModByZero

\* Another project is selected while the viewer is open (the Preview button of
\* a card, page.tsx 562 and 974; a card of the public page, UploadForm.tsx 1308
\* and 1567).  AdminPage renders <ProjectPreview> at the same place without a
\* key (985-991): the component stays mounted, keeps currentMediaIndex, and its
\* keyboard effect runs again because onClose is a new function.  PortfolioPage
\* defines ProjectPreviewModal inside its own body (726), so each of its renders
\* makes a new component type: the old viewer is unmounted and a new one mounted.
VwrPresent(p) ==
    /\ galViewer # "none"
    /\ p # galProject
    /\ galProject' = p
    /\ currentMediaIndex' = IF galViewer = "admin" THEN currentMediaIndex ELSE Num(0)
    /\ galStreak' = NoStreak
    /\ keydownListeners' = EffectRerun(keydownListeners, registered,
                                       ListenerOf(galViewer, p))
    /\ registered' = ListenerOf(galViewer, p)
    /\ lastEvent' = Event("present", "")
    /\ UNCHANGED <<galViewer, galModByZero>>

\* The parent page renders again for another reason (a toast, a snapshot, the
\* project list arriving): the same, without a change of the project.
VwrRerender ==
    /\ galViewer # "none"
    /\ currentMediaIndex' = IF galViewer = "admin" THEN currentMediaIndex ELSE Num(0)
    /\ galStreak' = NoStreak
    /\ keydownListeners' = EffectRerun(keydownListeners, registered,
                                       ListenerOf(galViewer, galProject))
    /\ registered' = ListenerOf(galViewer, galProject)
    /\ lastEvent' = Event("render", "")
    /\ UNCHANGED <<galViewer, galProject, galModByZero>>

\* A key goes down anywhere in the window.
VwrKeydown(key) ==
    LET st == Dispatch(keydownListeners, key,
                       [idx |-> currentMediaIndex, open |-> galViewer # "none"])
    IN  /\ lastEvent' = Event("key", key)
        /\ IF galViewer # "none" /\ ~st.open
           THEN Unmounted /\ UNCHANGED galModByZero
           ELSE /\ currentMediaIndex' = st.idx
                /\ galModByZero' = (galModByZero \/ st.idx.nan)
                /\ galStreak' = NoStreak
                /\ UNCHANGED <<galViewer, galProject, keydownListeners, registered>>

\* The next / previous buttons and the thumbnails
VwrClick(kind) ==
    /\ CASE kind = "next" -> GalClickNext
         [] kind = "previous" -> GalClickPrevious
         [] OTHER -> \E idx \in 0..MaxMedia : GalSelect(idx)
    /\ lastEvent' = Event("click", kind)
    /\ UNCHANGED <<keydownListeners, registered>>

VwrNext ==
    \/ \E v \in {"admin", "public"}, p \in GalleryProjects : VwrOpen(v, p) /\ UNCHANGED notViewer
    \/ VwrClose /\ UNCHANGED notViewer
    \/ \E p \in GalleryProjects : VwrPresent(p) /\ UNCHANGED notViewer
    \/ VwrRerender /\ UNCHANGED notViewer
    \/ \E key \in {"ArrowRight", "ArrowLeft", "Escape", "Enter"} : VwrKeydown(key) /\ UNCHANGED notViewer
    \/ \E kind \in {"next", "previous", "select"} : VwrClick(kind) /\ UNCHANGED notViewer

\* -------------------------------------------------------------------------
\* The gallery viewer inside its parent page: claims
\* -------------------------------------------------------------------------

\* C19: in an open viewer whose normalized media sequence has at least one
\* item, currentMediaIndex is 0 right after a project has been presented (on
\* opening, and when another project replaces the one shown), and it is always
\* one of 0 .. length - 1.
C19_IndexStartsAtZeroAndStaysInRange ==
    (galViewer # "none" /\ Len(GalItems) >= 1)
    => ( /\ lastEvent.kind \in {"open", "present"} => currentMediaIndex = Num(0)
         /\ ~currentMediaIndex.nan
         /\ currentMediaIndex.n \in 0..(Len(GalItems) - 1) )

\* C20: a right-arrow in an open viewer of two or more items moves the index
\* to (index + 1) mod length, a left-arrow to (index - 1 + length) mod length,
\* escape closes the viewer whatever the length; an open viewer has exactly
\* one keydown handler registered and a closed one has none.
C20_KeysBoundOnceWhileOpen ==
    /\ galViewer # "none" => Len(keydownListeners) = 1
    /\ galViewer = "none" => Len(keydownListeners) = 0
    /\ (lastEvent.kind = "key" /\ lastEvent.len >= 2 /\ lastEvent.key = "ArrowRight")
       => ( /\ galViewer # "none"
            /\ currentMediaIndex = Num((lastEvent.from.n + 1) % lastEvent.len) )
    /\ (lastEvent.kind = "key" /\ lastEvent.len >= 2 /\ lastEvent.key = "ArrowLeft")
       => ( /\ galViewer # "none"
            /\ currentMediaIndex =
                   Num((lastEvent.from.n - 1 + lastEvent.len) % lastEvent.len) )
    /\ (lastEvent.kind = "key" /\ lastEvent.key = "Escape") => galViewer = "none"

\* A right-arrow on the last of the items of the admin viewer, after the page
\* was rendered again: the index wraps to 0 and one handler is registered.
C20_Witness ==
    /\ galViewer = "admin"
    /\ lastEvent = [kind |-> "key", key |-> "ArrowRight",
                    from |-> Num(MaxMedia - 1), len |-> MaxMedia]
    /\ currentMediaIndex = Num(0)
    /\ Len(keydownListeners) = 1

\* =========================================================================
\* The dashboard: the Session Gate together with the projects subscription
\* =========================================================================

\* The effect with an empty guard
EffectSubscribesAlways(a, u) == TRUE

\* The guard of the load-projects effect: if (!isAdmin || !user) return;
EffectSubscribes(a, u) == a /\ u # None /\ u # Undefined

\* AdminPage has been mounted; nothing is subscribed before the first commit
\* with isAdmin and user set.
DashPrjInit ==
    /\ storeDocs = ProjectIds
    /\ cacheView = storeDocs
    /\ prjSubscription = "closed"
    /\ snapshotDue = FALSE
    /\ projects = << >>
    /\ loadingProjects = TRUE
    /\ previewProject = NoPreview
    /\ pendingDeletes = {}
    /\ prjToasts = NoPrjToasts
    /\ deletedInPreview = {}
    /\ lastSnapshot = << >>

\* React commits the state a gate step has set and runs the load-projects
\* effect (lines 731-758) for it: when isAdmin or user has changed, or the
\* page is unmounted, the cleanup unsubscribes; when the guard then passes, a
\* new listener is opened, which will deliver a first snapshot.
DashCommit ==
    /\ LET was == mounted /\ EffectSubscribes(isAdmin, user)
           is == mounted' /\ EffectSubscribes(isAdmin', user')
       IN  IF was /\ is /\ isAdmin' = isAdmin /\ user' = user
           THEN UNCHANGED <<prjSubscription, snapshotDue>>
           ELSE IF is
           THEN prjSubscription' = "open" /\ snapshotDue' = TRUE
           ELSE prjSubscription' = "closed" /\ snapshotDue' = FALSE
    /\ UNCHANGED <<storeDocs, cacheView, projects, loadingProjects, previewProject,
                   pendingDeletes, prjToasts, deletedInPreview, lastSnapshot>>

\* handleSignOut (lines 760-769), from the dashboard's sign-out button:
\* signOut(auth) settles, and on success the login route is pushed.  Its two
\* toasts are not among the gate's.
DashSignOut(ok) ==
    /\ mounted
    /\ ~checkingAuth
    /\ isAdmin
    /\ user \in Users
    /\ authUser # None
    /\ IF ok
       THEN /\ authUser' = None
            /\ navLog' = PushLogin(0)
       ELSE UNCHANGED <<authUser, navLog>>
    /\ UNCHANGED <<user, isAdmin, checkingAuth, hasShownWelcome, mounted, closures,
                   handlers, now, toasts, signOutCalls, afterTeardown>>

\* The clock and the redirect timer of the denied branch only push a
\* navigation; they touch neither isAdmin nor user, and stay out of these steps.
DashNext ==
    \/ \E v \in Users \cup {None} : GateDeliver(v) /\ DashCommit /\ UNCHANGED notDash
    \/ \E h \in 1..MaxHandlers, r \in FetchResults : GateFetchDone(h, r) /\ DashCommit /\ UNCHANGED notDash
    \/ \E h \in 1..MaxHandlers, ok \in BOOLEAN : GateSignOutDone(h, ok) /\ DashCommit /\ UNCHANGED notDash
    \/ GateEffectRerun /\ DashCommit /\ UNCHANGED notDash
    \/ GateTeardown /\ DashCommit /\ UNCHANGED notDash
    \/ \E ok \in BOOLEAN : DashSignOut(ok) /\ DashCommit /\ UNCHANGED notDash
    \/ PrjSnapshot /\ UNCHANGED notPrj
    \/ PrjSnapshotError /\ UNCHANGED notPrj

\* The gate is in the granted state
Granted == mounted /\ isAdmin /\ user \in Users

\* C22: the projects listener is open only while the gate is in the granted
\* state: none is opened before, it is closed as soon as the gate has left
\* that state or AdminPage is torn down, and only a step taken in the granted
\* state changes the mirror.
C22_SubscribedOnlyWhileGranted ==
    /\ [](prjSubscription # "closed" => Granted)
    /\ [](~Granted => prjSubscription = "closed" /\ ~snapshotDue)
    /\ [][ (projects' # projects \/ lastSnapshot' # lastSnapshot)
           => (Granted /\ prjSubscription = "open") ]_vars

\* The mirror was filled while access was granted; then a later check of the
\* same identity denied access and the listener was closed.
C22_Witness ==
    /\ ~Granted
    /\ prjSubscription = "closed"
    /\ projects # << >>
    /\ \E h \in HandlerIds : handlers[h].outcome = "granted"
    /\ \E h \in HandlerIds : handlers[h].outcome = "denied"

\* =========================================================================
\* The public page: the one-shot fetch of the projects
\* =========================================================================

MaxPublicDocs == 7

\* projects.slice(0, 6)
RecentWorkCount == 6

\* A document is named by its creation time.  An unordered query returns the
\* documents in the order of their generated ids, which has nothing to do with
\* the order of creation: any order.
RECURSIVE Arrangements(_)
Arrangements(S) ==
    {<< >>} \cup UNION { {<<d>> \o q : q \in Arrangements(S \ {d})} : d \in S }

\* PortfolioPage has mounted and its effect has called
\* fetchProjectsFromFirebase, which waits for getDocs.
PubInit ==
    /\ pubStore \in Arrangements(1..MaxPublicDocs)
    /\ pubProjects = << >>
    /\ pubLoading = TRUE
    /\ pubPc = "fetching"

PubIdle ==
    /\ pubStore = << >>
    /\ pubProjects = << >>
    /\ pubLoading = TRUE
    /\ pubPc = "unmounted"

\* querySnapshot.docs.map(doc => ({id: doc.id, ...doc.data()}))
FetchedProjects(docs) == [k \in 1..Len(docs) |-> docs[k]]

\* getDocs(collection(db, 'projects')) settles: the documents in the order of
\* the result, or the catch with an empty list.
PubFetchDone(ok) ==
    /\ pubPc = "fetching"
    /\ pubProjects' = IF ok THEN FetchedProjects(pubStore) ELSE << >>
    /\ pubLoading' = FALSE
    /\ pubPc' = IF ok THEN "fetched" ELSE "failed"
    /\ UNCHANGED pubStore

\* The projects of the recent-work section
RecentWork(ps) == SubSeq(ps, 1, IF Len(ps) < RecentWorkCount THEN Len(ps) ELSE RecentWorkCount)

PubNext == \E ok \in BOOLEAN : PubFetchDone(ok) /\ UNCHANGED notPub

NewestFirst(ps) == \A i, j \in 1..Len(ps) : i < j => ps[i] > ps[j]

Range(ps) == {ps[k] : k \in 1..Len(ps)}

\* C29: both mirrors hold the projects newest first, and the recent-work
\* section of the public page shows the projects created last, six of them
\* when there are as many, in whatever order the store has returned them.
C29_MirrorsNewestFirst ==
    /\ NewestFirst(projects)
    /\ pubPc = "fetched" =>
          /\ NewestFirst(pubProjects)
          /\ \A shown \in Range(RecentWork(pubProjects)) :
                \A other \in Range(pubStore) \ Range(RecentWork(pubProjects)) :
                    shown > other

\* =========================================================================
\* Specifications
\* =========================================================================

GateIdle ==
    /\ authUser = None
    /\ user = Undefined
    /\ isAdmin = FALSE
    /\ checkingAuth = TRUE
    /\ hasShownWelcome = FALSE
    /\ mounted = TRUE
    /\ closures = << [isMounted |-> TRUE, hasShownWelcome |-> FALSE, page |-> 1] >>
    /\ handlers = << >>
    /\ now = 0
    /\ toasts = NoToasts
    /\ signOutCalls = 0
    /\ navLog = << >>
    /\ afterTeardown = {}

\* The Session Gate
Init == GateInit /\ MedIdle /\ GalInit /\ SubIdle /\ FldIdle /\ PrjIdle /\ LgnIdle /\ VwrIdle /\ PubIdle

Next == GateNext

Spec == Init /\ [][Next]_vars

\* The Session Gate while the provider's user can change under it
InitSession == GateInit /\ MedIdle /\ GalInit /\ SubIdle /\ FldIdle /\ PrjIdle /\ LgnIdle /\ VwrIdle /\ PubIdle

NextSession ==
    \/ GateNext
    \/ \E v \in Users \cup {None} : AuthChangesElsewhere(v) /\ UNCHANGED notGate

SpecSession == InitSession /\ [][NextSession]_vars

\* Rendering a project's media
InitMedia == GateIdle /\ MedInit /\ GalInit /\ SubIdle /\ FldIdle /\ PrjIdle /\ LgnIdle /\ VwrIdle /\ PubIdle

NextMedia == MedNext

SpecMedia == InitMedia /\ [][NextMedia]_vars

\* The gallery viewers
InitGallery == GateIdle /\ MedIdle /\ GalInit /\ SubIdle /\ FldIdle /\ PrjIdle /\ LgnIdle /\ VwrIdle /\ PubIdle

NextGallery == GalNext

SpecGallery == InitGallery /\ [][NextGallery]_vars

\* The upload / edit form
InitSubmit == GateIdle /\ MedIdle /\ GalInit /\ SubInit /\ FldIdle /\ PrjIdle /\ LgnIdle /\ VwrIdle /\ PubIdle

NextSubmit == SubNext

SpecSubmit == InitSubmit /\ [][NextSubmit]_vars

\* The same, with every remote call settling: a pending role fetch, upload
\* or write is eventually answered.
SettleVerify == \E s \in 1..Len(subs), r \in FetchResults : SubVerifyDone(s, r) /\ UNCHANGED notSub

SettleUpload ==
    \E s \in 1..Len(subs), r \in {"ok", "notOkWithMessage", "notOk", "rejected"} :
        SubUploadDone(s, r) /\ UNCHANGED notSub

SettleWrite ==
    \E s \in 1..Len(subs), r \in {"ok", "rejectedWithMessage", "rejected"} :
        SubWriteDone(s, r) /\ UNCHANGED notSub

\* No file, files all within the cap, or files of which the last is one byte
\* above the image cap
LiveFileLists ==
    { << >>,
      [k \in 1..MaxFiles |-> ImageCapBytes],
      [k \in 1..MaxFiles |-> IF k = MaxFiles THEN ImageCapBytes + 1 ELSE ImageCapBytes] }

SubLiveInit ==
    /\ formUser = "u1"
    /\ initialData \in InitialDataValues
    /\ cloudinaryEnv \in {[cloudName |-> TRUE, preset |-> TRUE],
                          [cloudName |-> TRUE, preset |-> FALSE]}
    /\ selectedFiles \in LiveFileLists
    /\ selectedType \in ProjectTypes
    /\ isLoading = FALSE
    /\ uploadProgress = 0
    /\ progressIntervals = 0
    /\ progressTicks = 0
    /\ subs = << >>
    /\ hostCalls = << >>
    /\ storeCalls = << >>

InitSubmitLive == GateIdle /\ MedIdle /\ GalInit /\ SubLiveInit /\ FldIdle /\ PrjIdle /\ LgnIdle /\ VwrIdle /\ PubIdle

SpecSubmitLive ==
    /\ InitSubmitLive
    /\ [][NextSubmit]_vars
    /\ WF_vars(SettleVerify)
    /\ WF_vars(SettleUpload)
    /\ WF_vars(SettleWrite)

\* The fields of the form: a create of one file by a signed-in user, with
\* every combination of field values
SubOneFile ==
    /\ formUser = "u1"
    /\ initialData = NoInitialData
    /\ cloudinaryEnv = [cloudName |-> TRUE, preset |-> TRUE]
    /\ selectedFiles = << ImageCapBytes >>
    /\ selectedType \in ProjectTypes
    /\ isLoading = FALSE
    /\ uploadProgress = 0
    /\ progressIntervals = 0
    /\ progressTicks = 0
    /\ subs = << >>
    /\ hostCalls = << >>
    /\ storeCalls = << >>

InitForm == GateIdle /\ MedIdle /\ GalInit /\ SubOneFile /\ FldInit /\ PrjIdle /\ LgnIdle /\ VwrIdle /\ PubIdle

NextForm == SubNext

SpecForm == InitForm /\ [][NextForm]_vars

\* The submit button pressed repeatedly: a create of one file with valid fields
InitRace == GateIdle /\ MedIdle /\ GalInit /\ SubOneFile /\ FldIdle /\ PrjIdle /\ LgnIdle /\ VwrIdle /\ PubIdle

NextRace ==
    \/ SubClickAgain /\ UNCHANGED notForm
    \/ \E s \in 1..Len(subs), r \in FetchResults : SubVerifyDone(s, r) /\ UNCHANGED notSub
    \/ \E s \in 1..Len(subs), r \in {"ok", "notOkWithMessage", "notOk", "rejected"} : SubUploadDone(s, r) /\ UNCHANGED notSub
    \/ \E s \in 1..Len(subs), r \in {"ok", "rejectedWithMessage", "rejected"} : SubWriteDone(s, r) /\ UNCHANGED notSub
    \/ SubProgressTick /\ UNCHANGED notSub

SpecRace == InitRace /\ [][NextRace]_vars

\* The projects of the admin dashboard
InitProjects == GateIdle /\ MedIdle /\ GalInit /\ SubIdle /\ FldIdle /\ PrjInit /\ LgnIdle /\ VwrIdle /\ PubIdle

NextProjects == PrjNext

SpecProjects == InitProjects /\ [][NextProjects]_vars

\* The login screen, opened by a visitor; AdminPage is not mounted.
GateAway ==
    /\ authUser \in Users \cup {None}
    /\ user = Undefined
    /\ isAdmin = FALSE
    /\ checkingAuth = TRUE
    /\ hasShownWelcome = FALSE
    /\ mounted = FALSE
    /\ closures = << [isMounted |-> FALSE, hasShownWelcome |-> FALSE, page |-> 1] >>
    /\ handlers = << >>
    /\ now = 0
    /\ toasts = NoToasts
    /\ signOutCalls = 0
    /\ navLog = << >>
    /\ afterTeardown = {}

LgnAtLogin ==
    /\ route = "login"
    /\ LoginMounted
    /\ loginOrphans = 0
    /\ adminPushes = 0
    /\ adminPushesDone = 0
    /\ loginPushesDone = 0
    /\ sinceFailure = "none"
    /\ reentered = FALSE

InitLogin == GateAway /\ MedIdle /\ GalInit /\ SubIdle /\ FldIdle /\ PrjIdle /\ LgnAtLogin /\ VwrIdle /\ PubIdle

NextLogin ==
    \/ \E v \in Users \cup {None} : LoginDeliver(v) /\ UNCHANGED notApp
    \/ \E e \in EmailValues, p \in PasswordValues : LoginType(e, p) /\ UNCHANGED notApp
    \/ LoginSubmit /\ UNCHANGED notApp
    \/ \E r \in SignInResults, u \in Users : LoginSignInDone(r, u) /\ UNCHANGED notApp
    \/ AppToAdmin /\ UNCHANGED notApp

SpecLogin == InitLogin /\ [][NextLogin]_vars

\* The two screens of the admin area and the navigation between them
InitApp == GateInit /\ MedIdle /\ GalInit /\ SubIdle /\ FldIdle /\ PrjIdle /\ LgnInit /\ VwrIdle /\ PubIdle

NextApp == AppNext

SpecApp == InitApp /\ [][NextApp]_vars

\* The gallery viewer inside its parent page
InitViewer == GateIdle /\ MedIdle /\ GalInit /\ SubIdle /\ FldIdle /\ PrjIdle /\ LgnIdle /\ VwrInit /\ PubIdle

NextViewer == VwrNext

SpecViewer == InitViewer /\ [][NextViewer]_vars

\* The dashboard: gate and projects listener
InitDash == GateInit /\ MedIdle /\ GalInit /\ SubIdle /\ FldIdle /\ DashPrjInit /\ LgnIdle /\ VwrIdle /\ PubIdle

NextDash == DashNext

SpecDash == InitDash /\ [][NextDash]_vars

\* The public page
InitPublic == GateIdle /\ MedIdle /\ GalInit /\ SubIdle /\ FldIdle /\ PrjIdle /\ LgnIdle /\ VwrIdle /\ PubInit

NextPublic == PubNext

SpecPublic == InitPublic /\ [][NextPublic]_vars

====
